---- MODULE Spec2Model ----
(***************************************************************************)
(* Model of the hugo-bros backend (src-tauri/src): the frontmatter parser  *)
(* and serializer of markdown.rs, and the content listing commands of      *)
(* commands.rs over the project layout of hugo.rs.                         *)
(*                                                                         *)
(* Text is a sequence of tokens.  Every token stands for a fixed literal   *)
(* chunk of text (its own string, "NL" standing for the newline            *)
(* character).  No chunk other than "---" begins or ends with '-', and no  *)
(* chunk other than "+++" begins or ends with '+', so a search for the     *)
(* substring "---", "+++" or "\n---" in the text finds exactly the         *)
(* occurrences of the tokens.                                              *)
(***************************************************************************)
EXTENDS Integers, Sequences, FiniteSets, TLC

\* ------------------------------------------------------------------------
\* Tokens
\* ------------------------------------------------------------------------
D3 == "---"
P3 == "+++"
NL == "NL"
LB == "{"
RB == "}"
CM == ", "
Kt == "title: "
Kd == "date: "
Kf == "draft: "
Kx == "x: "
QKt == "\"title\": "
QKd == "\"date\": "
Wa == "a"
Wb == "b"
Wu == "Untitled Post"
EQ == "''"
TRUE_ == "true"
TAGS0 == "tags: []"
CATS0 == "categories: []"
Tt == "title = 'a'"
Td == "date = 'b'"
H1 == "# "

\* the Cyrillic capital letter YA, written by its code point
Wya == "U+042F"
\* the words a title is made of
TitleWords == {"index", "posts", "post", "drafts", Wya}
Words == {Wa, Wb, Wu} \cup TitleWords
YamlKeyTokens == {Kt, Kd, Kf, Kx, QKt, QKd}
KeyName(k) == CASE k \in {Kt, QKt} -> "title" [] k \in {Kd, QKd} -> "date"
                [] k = Kf -> "draft" [] k = Kx -> "x" [] OTHER -> "?"

\* char::is_whitespace over the token alphabet
IsWhitespace(tok) == tok = NL

\* ------------------------------------------------------------------------
\* String helpers (Rust str methods, on token sequences)
\* ------------------------------------------------------------------------
RECURSIVE FindTok(_, _, _)
\* first index >= i of tok in s, 0 when there is none
FindTok(s, tok, i) ==
    IF i > Len(s) THEN 0
    ELSE IF s[i] = tok THEN i ELSE FindTok(s, tok, i + 1)

StartsWith(s, tok) == Len(s) >= 1 /\ s[1] = tok

RECURSIVE TrimStart(_)
TrimStart(s) ==
    IF s # <<>> /\ IsWhitespace(s[1]) THEN TrimStart(Tail(s)) ELSE s

RECURSIVE TrimEnd(_)
TrimEnd(s) ==
    IF s # <<>> /\ IsWhitespace(s[Len(s)])
    THEN TrimEnd(SubSeq(s, 1, Len(s) - 1)) ELSE s

Trim(s) == TrimEnd(TrimStart(s))

\* str::splitn(3, pat): at most three parts, cut at the first two occurrences
SplitN3(s, pat) ==
    LET i1 == FindTok(s, pat, 1) IN
    IF i1 = 0 THEN <<s>>
    ELSE LET i2 == FindTok(s, pat, i1 + 1) IN
         IF i2 = 0
         THEN <<SubSeq(s, 1, i1 - 1), SubSeq(s, i1 + 1, Len(s))>>
         ELSE <<SubSeq(s, 1, i1 - 1), SubSeq(s, i1 + 1, i2 - 1),
                SubSeq(s, i2 + 1, Len(s))>>

RECURSIVE SplitAll(_, _)
\* the parts of s between the occurrences of tok (lines, for tok = NL)
SplitAll(s, tok) ==
    LET i == FindTok(s, tok, 1) IN
    IF i = 0 THEN <<s>>
    ELSE <<SubSeq(s, 1, i - 1)>> \o SplitAll(SubSeq(s, i + 1, Len(s)), tok)

RECURSIVE FindNlD3(_, _)
\* raw.find("\n---"): index of the newline of the first "\n---", 0 if none
FindNlD3(s, i) ==
    IF i + 1 > Len(s) THEN 0
    ELSE IF s[i] = NL /\ s[i + 1] = D3 THEN i ELSE FindNlD3(s, i + 1)

\* ------------------------------------------------------------------------
\* Decoded values (serde_yaml::Value) and the Frontmatter record
\* ------------------------------------------------------------------------
\* A value is [t |-> its shape, v |-> its text as tokens].  Option<T> is a
\* sequence of length 0 (None) or 1 (Some).
StrVal(toks) == [t |-> "str", v |-> toks]
BoolTrue == [t |-> "bool", v |-> <<TRUE_>>]
EmptyMap == [t |-> "map", v |-> <<>>]
EmptyList == [t |-> "list", v |-> <<>>]
BadVal == [t |-> "bad", v |-> <<>>]

\* the named fields of struct FrontmatterYaml (everything but the
\* flattened custom_fields)
FixedKeys == {"title", "date", "tags", "categories", "updated", "comments",
              "layout", "permalink", "description", "draft"}

\* ------------------------------------------------------------------------
\* serde_yaml::from_str, syntax level: text -> list of (key, value) entries
\* ------------------------------------------------------------------------
\* A scalar after "key: ".  Plain scalars start with a word and may carry
\* "---" inside ("a---b"); "true" is a boolean, "{}" an empty flow mapping,
\* "''" the empty string.
YamlScalar(v) ==
    IF v = <<TRUE_>> THEN BoolTrue
    ELSE IF v = <<LB, RB>> THEN EmptyMap
    ELSE IF v = <<EQ>> THEN StrVal(<<>>)
    ELSE IF v # <<>> /\ v[1] \in Words
            /\ \A i \in 1..Len(v) : v[i] \in Words \cup {D3}
         THEN StrVal(v)
    ELSE BadVal

\* one "key: value" item, of a block line or between the commas of a flow
\* mapping: [kind |-> "entry" | "blank" | "bad", key, val]
YamlItem(item) ==
    IF item = <<>> THEN [kind |-> "blank", key |-> "", val |-> BadVal]
    ELSE IF item = <<TAGS0>>
         THEN [kind |-> "entry", key |-> "tags", val |-> EmptyList]
    ELSE IF item = <<CATS0>>
         THEN [kind |-> "entry", key |-> "categories", val |-> EmptyList]
    ELSE IF item[1] \in YamlKeyTokens
         THEN LET val == YamlScalar(Tail(item)) IN
              IF val.t # "bad"
              THEN [kind |-> "entry", key |-> KeyName(item[1]), val |-> val]
              ELSE [kind |-> "bad", key |-> "", val |-> BadVal]
    ELSE [kind |-> "bad", key |-> "", val |-> BadVal]

RECURSIVE EntriesAfter(_, _)
\* the entries of a list of items, after the entries acc of the items
\* before them; ok is FALSE when an item is malformed
EntriesAfter(items, acc) ==
    IF items = <<>> THEN [ok |-> TRUE, entries |-> acc]
    ELSE LET it == YamlItem(items[1]) IN
         IF it.kind = "bad" THEN [ok |-> FALSE, entries |-> <<>>]
         ELSE IF it.kind = "blank" THEN EntriesAfter(Tail(items), acc)
         ELSE EntriesAfter(Tail(items),
                           Append(acc, [key |-> it.key, val |-> it.val]))

ItemsToEntries(items) == EntriesAfter(items, <<>>)

\* block mapping: one item per line
BlockEntries(s) == ItemsToEntries(SplitAll(s, NL))

\* flow mapping on one line: "{" item ", " item ... "}" and nothing after
\* the closing brace; the only nested mapping is the empty one
FlowEntries(s) ==
    IF Len(s) >= 2 /\ s[1] = LB /\ s[Len(s)] = RB
       /\ \A i \in 2..(Len(s) - 1) :
             /\ s[i] # NL
             /\ s[i] = LB => s[i + 1] = RB /\ i + 1 < Len(s)
             /\ s[i] = RB => s[i - 1] = LB /\ i - 1 > 1
    THEN LET items == SplitAll(SubSeq(s, 2, Len(s) - 1), CM) IN
         IF \E i \in 1..Len(items) : items[i] = <<>>
         THEN [ok |-> FALSE, entries |-> <<>>]
         ELSE ItemsToEntries(items)
    ELSE [ok |-> FALSE, entries |-> <<>>]

\* a leading "---" line is the document-start marker of the one document
YamlEntries(s) ==
    LET body == IF s # <<>> /\ s[1] = D3 /\ (Len(s) = 1 \/ s[2] = NL)
                THEN TrimStart(Tail(s)) ELSE s IN
    IF StartsWith(body, LB) THEN FlowEntries(body) ELSE BlockEntries(body)

\* toml::from_str::<toml::Value>: one "key = 'value'" per line, no
\* duplicate keys
TomlItem(line) ==
    IF line = <<>> THEN [kind |-> "blank", key |-> "", val |-> BadVal]
    ELSE IF line = <<Tt>>
         THEN [kind |-> "entry", key |-> "title", val |-> StrVal(<<Wa>>)]
    ELSE IF line = <<Td>>
         THEN [kind |-> "entry", key |-> "date", val |-> StrVal(<<Wb>>)]
    ELSE [kind |-> "bad", key |-> "", val |-> BadVal]

RECURSIVE TomlItems(_, _)
\* the entries of the lines, after the entries acc of the lines before them
TomlItems(lines, acc) ==
    IF lines = <<>> THEN [ok |-> TRUE, entries |-> acc]
    ELSE LET it == TomlItem(lines[1]) IN
         IF it.kind = "bad" THEN [ok |-> FALSE, entries |-> <<>>]
         ELSE IF it.kind = "blank" THEN TomlItems(Tail(lines), acc)
         ELSE IF \E i \in 1..Len(acc) : acc[i].key = it.key
              THEN [ok |-> FALSE, entries |-> <<>>]
         ELSE TomlItems(Tail(lines),
                        Append(acc, [key |-> it.key, val |-> it.val]))

TomlEntries(s) == TomlItems(SplitAll(s, NL), <<>>)

\* ------------------------------------------------------------------------
\* Binding the entries to struct FrontmatterYaml (serde derive, with
\* #[serde(flatten)] custom_fields) and the conversion into Frontmatter
\* ------------------------------------------------------------------------
None == <<>>
Some(x) == <<x>>

KeyCount(entries, k) ==
    Cardinality({i \in 1..Len(entries) : entries[i].key = k})
\* the value of the last entry with key k
LastVal(entries, k) ==
    LET I == {i \in 1..Len(entries) : entries[i].key = k} IN
    entries[CHOOSE i \in I : \A j \in I : j <= i].val

\* the keys that go to the flattened map: every key that names no field
CustomKeys(entries) ==
    {entries[i].key : i \in 1..Len(entries)} \ FixedKeys

\* a named field is taken once and must have its declared type; title and
\* date are required, the other fields default
BindOk(entries) ==
    /\ KeyCount(entries, "title") = 1
    /\ LastVal(entries, "title").t = "str"
    /\ KeyCount(entries, "date") = 1
    /\ LastVal(entries, "date").t = "str"
    /\ KeyCount(entries, "tags") <= 1
    /\ KeyCount(entries, "tags") = 1 => LastVal(entries, "tags").t = "list"
    /\ KeyCount(entries, "categories") <= 1
    /\ KeyCount(entries, "categories") = 1
          => LastVal(entries, "categories").t = "list"
    /\ KeyCount(entries, "draft") <= 1
    /\ KeyCount(entries, "draft") = 1 => LastVal(entries, "draft").t = "bool"

\* variant: the flattened map also keeps the keys of the named fields
FrontmatterKeepAllKeys(entries) ==
    [title |-> LastVal(entries, "title").v,
     date |-> LastVal(entries, "date").v,
     tags |-> <<>>,
     categories |-> <<>>,
     updated |-> None,
     comments |-> None,
     layout |-> None,
     permalink |-> None,
     description |-> None,
     draft |-> IF KeyCount(entries, "draft") = 1 THEN Some(TRUE) ELSE None,
     custom_fields |->
        [k \in {entries[i].key : i \in 1..Len(entries)} |-> LastVal(entries, k)]]

FrontmatterFromYaml(entries) ==
    [title |-> LastVal(entries, "title").v,
     date |-> LastVal(entries, "date").v,
     tags |-> <<>>,
     categories |-> <<>>,
     updated |-> None,
     comments |-> None,
     layout |-> None,
     permalink |-> None,
     description |-> None,
     draft |-> IF KeyCount(entries, "draft") = 1 THEN Some(TRUE) ELSE None,
     custom_fields |-> [k \in CustomKeys(entries) |-> LastVal(entries, k)]]

DefaultFrontmatter ==
    [title |-> <<Wu>>,
     date |-> <<>>,
     tags |-> <<>>,
     categories |-> <<>>,
     updated |-> None,
     comments |-> None,
     layout |-> None,
     permalink |-> None,
     description |-> None,
     draft |-> None,
     custom_fields |-> [k \in {} |-> BadVal]]

Failed == [ok |-> FALSE, frontmatter |-> DefaultFrontmatter, content |-> <<>>]

\* serde_yaml::from_str::<FrontmatterYaml>(text)
FromYaml(text) ==
    LET d == YamlEntries(text) IN
    IF d.ok /\ BindOk(d.entries)
    THEN [ok |-> TRUE, frontmatter |-> FrontmatterFromYaml(d.entries)]
    ELSE [ok |-> FALSE, frontmatter |-> DefaultFrontmatter]

\* toml::from_str, serde_json::to_value, serde_json::from_value
FromToml(text) ==
    LET d == TomlEntries(text) IN
    IF d.ok /\ BindOk(d.entries)
    THEN [ok |-> TRUE, frontmatter |-> FrontmatterFromYaml(d.entries)]
    ELSE [ok |-> FALSE, frontmatter |-> DefaultFrontmatter]

\* ------------------------------------------------------------------------
\* MarkdownDocument::parse: the four format branches and the default
\* ------------------------------------------------------------------------
\* Standard format: ---\nfrontmatter\n---\ncontent
TryStandard(raw) ==
    IF StartsWith(raw, D3)
    THEN LET parts == SplitN3(raw, D3) IN
         IF Len(parts) >= 3
         THEN LET fm == FromYaml(Trim(parts[2])) IN
              IF fm.ok
              THEN [ok |-> TRUE, frontmatter |-> fm.frontmatter,
                    content |-> Trim(parts[3])]
              ELSE Failed
         ELSE Failed
    ELSE Failed

\* TOML frontmatter: +++\nfrontmatter\n+++\ncontent
TryToml(raw) ==
    IF StartsWith(raw, P3)
    THEN LET parts == SplitN3(raw, P3) IN
         IF Len(parts) >= 3
         THEN LET fm == FromToml(Trim(parts[2])) IN
              IF fm.ok
              THEN [ok |-> TRUE, frontmatter |-> fm.frontmatter,
                    content |-> Trim(parts[3])]
              ELSE Failed
         ELSE Failed
    ELSE Failed

RECURSIVE JsonEnd(_, _, _)
\* the loop of split_json_frontmatter from position i with the given depth:
\* the index of the brace that brings the depth back to 0, 0 if none does
JsonEnd(s, i, depth) ==
    IF i > Len(s) THEN 0
    ELSE IF s[i] = LB THEN JsonEnd(s, i + 1, depth + 1)
    ELSE IF s[i] = RB
         THEN IF depth > 0
              THEN IF depth - 1 = 0 THEN i ELSE JsonEnd(s, i + 1, depth - 1)
              ELSE JsonEnd(s, i + 1, depth)
    ELSE JsonEnd(s, i + 1, depth)

\* variant: the object ends at the first closing brace (string search)
split_json_first_brace(raw) ==
    LET idx == FindTok(raw, RB, 1) IN
    IF idx = 0 THEN [some |-> FALSE, frontmatter_str |-> <<>>, content |-> <<>>]
    ELSE [some |-> TRUE,
          frontmatter_str |-> Trim(SubSeq(raw, 1, idx)),
          content |-> Trim(SubSeq(raw, idx + 1, Len(raw)))]

split_json_frontmatter(raw) ==
    LET idx == JsonEnd(raw, 1, 0) IN
    IF idx = 0 THEN [some |-> FALSE, frontmatter_str |-> <<>>, content |-> <<>>]
    ELSE [some |-> TRUE,
          frontmatter_str |-> Trim(SubSeq(raw, 1, idx)),
          content |-> Trim(SubSeq(raw, idx + 1, Len(raw)))]

\* JSON frontmatter: { ... }\ncontent
TryJson(raw) ==
    IF StartsWith(TrimStart(raw), LB)
    THEN LET sp == split_json_frontmatter(raw) IN
         IF sp.some
         THEN LET fm == FromYaml(sp.frontmatter_str) IN
              IF fm.ok
              THEN [ok |-> TRUE, frontmatter |-> fm.frontmatter,
                    content |-> sp.content]
              ELSE Failed
         ELSE Failed
    ELSE Failed

\* variant: no gate
LooksLikeYamlAlways(text) == TRUE

\* frontmatter_str.contains("title:") || frontmatter_str.contains("date:")
LooksLikeYaml(text) == \E i \in 1..Len(text) : text[i] \in {Kt, Kd}

\* Alternative format: frontmatter\n---\ncontent (without opening ---)
TryAlternative(raw) ==
    LET separator_pos == FindNlD3(raw, 1) IN
    IF separator_pos # 0
    THEN LET frontmatter_str == Trim(SubSeq(raw, 1, separator_pos - 1)) IN
         IF LooksLikeYaml(frontmatter_str)
         THEN LET fm == FromYaml(frontmatter_str) IN
              IF fm.ok
              THEN [ok |-> TRUE, frontmatter |-> fm.frontmatter,
                    content |-> Trim(SubSeq(raw, separator_pos + 2, Len(raw)))]
              ELSE Failed
         ELSE Failed
    ELSE Failed

Document(t, had_no_frontmatter) ==
    [frontmatter |-> t.frontmatter, content |-> t.content,
     had_no_frontmatter |-> had_no_frontmatter]

\* variant: the default keeps the trimmed text
ParseTrimDefault(raw) ==
    LET standard == TryStandard(raw)
        toml == TryToml(raw)
        json == TryJson(raw)
        alternative == TryAlternative(raw) IN
    IF standard.ok THEN Document(standard, FALSE)
    ELSE IF toml.ok THEN Document(toml, FALSE)
    ELSE IF json.ok THEN Document(json, FALSE)
    ELSE IF alternative.ok THEN Document(alternative, FALSE)
    ELSE [frontmatter |-> DefaultFrontmatter, content |-> Trim(raw),
          had_no_frontmatter |-> TRUE]

\* variant: a branch whose marker matches ends the chain when it fails
ParseNoFallthrough(raw) ==
    LET standard == TryStandard(raw)
        toml == TryToml(raw)
        json == TryJson(raw)
        alternative == TryAlternative(raw) IN
    IF StartsWith(raw, D3) /\ ~standard.ok
    THEN [frontmatter |-> DefaultFrontmatter, content |-> raw,
          had_no_frontmatter |-> TRUE]
    ELSE IF standard.ok THEN Document(standard, FALSE)
    ELSE IF toml.ok THEN Document(toml, FALSE)
    ELSE IF json.ok THEN Document(json, FALSE)
    ELSE IF alternative.ok THEN Document(alternative, FALSE)
    ELSE [frontmatter |-> DefaultFrontmatter, content |-> raw,
          had_no_frontmatter |-> TRUE]

\* variant: the headerless branch is tried before the marker branches
ParseAlternativeFirst(raw) ==
    LET standard == TryStandard(raw)
        toml == TryToml(raw)
        json == TryJson(raw)
        alternative == TryAlternative(raw) IN
    IF alternative.ok THEN Document(alternative, FALSE)
    ELSE IF standard.ok THEN Document(standard, FALSE)
    ELSE IF toml.ok THEN Document(toml, FALSE)
    ELSE IF json.ok THEN Document(json, FALSE)
    ELSE [frontmatter |-> DefaultFrontmatter, content |-> raw,
          had_no_frontmatter |-> TRUE]

\* MarkdownDocument::parse(raw): always Ok((document, had_no_frontmatter))
Parse(raw) ==
    LET standard == TryStandard(raw)
        toml == TryToml(raw)
        json == TryJson(raw)
        alternative == TryAlternative(raw) IN
    IF standard.ok THEN Document(standard, FALSE)
    ELSE IF toml.ok THEN Document(toml, FALSE)
    ELSE IF json.ok THEN Document(json, FALSE)
    ELSE IF alternative.ok THEN Document(alternative, FALSE)
    ELSE [frontmatter |-> DefaultFrontmatter, content |-> raw,
          had_no_frontmatter |-> TRUE]

\* ------------------------------------------------------------------------
\* frontmatter_to_yaml and to_markdown
\* ------------------------------------------------------------------------
\* a string scalar: plain when it starts with a word, '' when empty
EmitStr(v) == IF v = <<>> THEN <<EQ>> ELSE v

EmitValue(val) ==
    IF val.t = "bool" THEN <<TRUE_>>
    ELSE IF val.t = "map" THEN <<LB, RB>>
    ELSE EmitStr(val.v)

\* serde_yaml::to_string(&FrontmatterYaml): the fields in declaration
\* order, None fields skipped, then the flattened custom_fields
frontmatter_to_yaml(fm) ==
    <<Kt>> \o EmitStr(fm.title) \o <<NL>>
    \o <<Kd>> \o EmitStr(fm.date) \o <<NL>>
    \o <<TAGS0, NL>>
    \o <<CATS0, NL>>
    \o (IF fm.draft = Some(TRUE) THEN <<Kf, TRUE_, NL>> ELSE <<>>)
    \o (IF "x" \in DOMAIN fm.custom_fields
        THEN <<Kx>> \o EmitValue(fm.custom_fields["x"]) \o <<NL>> ELSE <<>>)

\* format!("---\n{}---\n\n{}", frontmatter_yaml, self.content)
to_markdown(fm, content) ==
    <<D3, NL>> \o frontmatter_to_yaml(fm) \o <<D3, NL, NL>> \o content

\* ------------------------------------------------------------------------
\* Input texts: up to MaxPieces pieces, joined by newlines
\* ------------------------------------------------------------------------
MaxPieces == 4

Pieces ==
    << <<>>,                                     \* (blank line)
       <<D3>>,                                   \* ---
       <<P3, NL, Tt, NL, Td, NL, P3>>,           \* +++ / title = 'a' / date = 'b' / +++
       <<Kt, Wa, NL, Kd, Wb>>,                   \* title: a / date: b
       <<Kt, Wa, NL, Kd, Wb, D3, Wa>>,           \* title: a / date: b---a
       <<Kt, Wa, D3, Wb, NL, Kd, Wb>>,           \* title: a---b / date: b
       <<QKt, Wa, NL, QKd, Wb>>,                 \* "title": a / "date": b
       <<Kf, TRUE_, NL, Kx, Wa>>,                \* draft: true / x: a
       <<Wa>>,                                   \* a
       <<LB, Kt, Wa, CM, Kd, Wb, CM, Kx, LB, RB, RB>>,
                                                 \* {title: a, date: b, x: {}}
       <<LB>> >>                                 \* {

RECURSIVE JoinPieces(_)
JoinPieces(ps) ==
    IF ps = <<>> THEN <<>>
    ELSE IF Len(ps) = 1 THEN Pieces[ps[1]]
    ELSE Pieces[ps[1]] \o <<NL>> \o JoinPieces(Tail(ps))

\* the choices of at most MaxPieces pieces
PieceChoices == UNION {[1..n -> 1..Len(Pieces)] : n \in 0..MaxPieces}

\* ------------------------------------------------------------------------
\* State
\* ------------------------------------------------------------------------
VARIABLES
    raw,      \* the text handed to MarkdownDocument::parse
    stage,    \* "input", "parsed", "serialized", "reparsed"
    doc,      \* the result of parse(raw)
    md,       \* to_markdown of doc
    doc2,     \* the result of parse(md)
    dirs,     \* the directories that exist, as absolute paths
    files,    \* the files that exist: absolute path -> file
    result,   \* the value returned by the last listing command
    sep,      \* std::path::MAIN_SEPARATOR of the host
    reply,    \* the value returned by the last get, save or delete command
    servers,  \* HUGO_SERVERS: server id -> the Child kept for it
    procs,    \* the hugo processes spawned so far: Child -> [key, status]
    calls,    \* start_server calls between their two lock scopes
    config    \* AppConfig: recent_projects and last_project_path

pvars == <<raw, stage, doc, md, doc2>>
fvars == <<dirs, files, result>>
cvars == <<sep, reply>>
avars == <<servers, procs, calls, config>>
vars == <<pvars, fvars, cvars, avars>>

\* no get, save or delete command has returned
NoReply ==
    [op |-> "none", id |-> "", file_path |-> <<>>, ok |-> TRUE, err |-> "",
     item |-> <<>>]

\* AppConfig::default() and the empty registry of lazy_static
AppAtStart ==
    /\ servers = <<>>
    /\ procs = <<>>
    /\ calls = <<>>
    /\ config = [recent_projects |-> <<>>, last_project_path |-> <<>>]

NoDoc == [frontmatter |-> DefaultFrontmatter, content |-> <<>>,
          had_no_frontmatter |-> TRUE]

InitParse ==
    /\ \E ps \in PieceChoices : raw = JoinPieces(ps)
    /\ stage = "input"
    /\ doc = NoDoc
    /\ md = <<>>
    /\ doc2 = NoDoc
    /\ dirs = {}
    /\ files = <<>>
    /\ result = [op |-> "none", items |-> <<>>]
    /\ sep = "/"
    /\ reply = NoReply
    /\ AppAtStart

\* MarkdownDocument::parse(&content)
DoParse ==
    /\ stage = "input"
    /\ doc' = Parse(raw)
    /\ stage' = "parsed"
    /\ UNCHANGED <<raw, md, doc2, fvars, cvars, avars>>

\* Post::to_markdown / Page::to_markdown / Draft::to_markdown
DoToMarkdown ==
    /\ stage = "parsed"
    /\ ~doc.had_no_frontmatter
    /\ md' = to_markdown(doc.frontmatter, doc.content)
    /\ stage' = "serialized"
    /\ UNCHANGED <<raw, doc, doc2, fvars, cvars, avars>>

\* MarkdownDocument::parse of the text that was written
DoReparse ==
    /\ stage = "serialized"
    /\ doc2' = Parse(md)
    /\ stage' = "reparsed"
    /\ UNCHANGED <<raw, doc, md, fvars, cvars, avars>>

NextParse == DoParse \/ DoToMarkdown \/ DoReparse

SpecParse == InitParse /\ [][NextParse]_vars

\* ------------------------------------------------------------------------
\* sanitize_filename (commands.rs), on the characters of a title
\* ------------------------------------------------------------------------
\* the characters of a token of the text
Chars(tok) ==
    CASE tok = Wa -> <<"a">>
      [] tok = Wb -> <<"b">>
      [] tok = D3 -> <<"-", "-", "-">>
      [] tok = Wu -> <<"U", "n", "t", "i", "t", "l", "e", "d", " ",
                       "P", "o", "s", "t">>
      [] tok = "index" -> <<"i", "n", "d", "e", "x">>
      [] tok = "posts" -> <<"p", "o", "s", "t", "s">>
      [] tok = "post" -> <<"p", "o", "s", "t">>
      [] tok = "drafts" -> <<"d", "r", "a", "f", "t", "s">>
      [] tok = Wya -> <<"U+042F">>
      [] OTHER -> <<tok>>

RECURSIVE CharsOf(_)
\* the characters of a text
CharsOf(toks) ==
    IF toks = <<>> THEN <<>> ELSE Chars(toks[1]) \o CharsOf(Tail(toks))

RECURSIVE transliterate_russian(_)
\* transliterate_russian: the letters of the mapping are replaced, here
\* the two forms of the last letter of the table
transliterate_russian(cs) ==
    IF cs = <<>> THEN <<>>
    ELSE (CASE cs[1] = "U+044F" -> <<"y", "a">>
            [] cs[1] = "U+042F" -> <<"Y", "a">>
            [] OTHER -> <<cs[1]>>)
         \o transliterate_russian(Tail(cs))

\* char::to_lowercase, for the capitals of the model
LowerChar(c) ==
    CASE c = "U" -> "u" [] c = "P" -> "p" [] c = "Y" -> "y" [] OTHER -> c
\* the class [a-z0-9-] of the first regex
KeptChars ==
    {"a", "b", "c", "d", "e", "f", "g", "h", "i", "j", "k", "l", "m", "n",
     "o", "p", "q", "r", "s", "t", "u", "v", "w", "x", "y", "z",
     "0", "1", "2", "3", "4", "5", "6", "7", "8", "9", "-"}

RECURSIVE DedupeHyphens(_)
\* Regex "-+" replaced by "-"
DedupeHyphens(cs) ==
    IF Len(cs) < 2 THEN cs
    ELSE IF cs[1] = "-" /\ cs[2] = "-" THEN DedupeHyphens(Tail(cs))
    ELSE <<cs[1]>> \o DedupeHyphens(Tail(cs))

RECURSIVE TrimHyphens(_)
\* trim_matches('-')
TrimHyphens(cs) ==
    IF cs # <<>> /\ cs[1] = "-" THEN TrimHyphens(Tail(cs))
    ELSE IF cs # <<>> /\ cs[Len(cs)] = "-"
    THEN TrimHyphens(SubSeq(cs, 1, Len(cs) - 1))
    ELSE cs

RECURSIVE Concat(_)
\* the string of a sequence of characters
Concat(cs) == IF cs = <<>> THEN "" ELSE cs[1] \o Concat(Tail(cs))

\* sanitize_filename
sanitize_filename(title) ==
    LET transliterated == transliterate_russian(CharsOf(title))
        lowered == [i \in 1..Len(transliterated) |-> LowerChar(transliterated[i])]
        replaced == [i \in 1..Len(lowered) |->
                        IF lowered[i] \in {" ", "_", "+"} THEN "-" ELSE lowered[i]]
        cleaned == SelectSeq(replaced, LAMBDA c : c \in KeptChars)
        deduped == DedupeHyphens(cleaned) IN
    Concat(TrimHyphens(deduped))

\* the titles create_post, create_page and create_draft are called with
TitleChoices ==
    {<<>>, <<Wa>>, <<Wa, D3, Wb>>, <<Wu>>, <<Wya>>,
     <<"index">>, <<"posts">>, <<"post">>, <<"drafts">>}

\* chrono::Utc::now().timestamp() at the calls
Timestamps == {3, 4}

\* the names create_page and create_draft may give a new item, without
\* the extension
CreatedStems ==
    LET names == {sanitize_filename(t) : t \in TitleChoices} \cup {"page", "draft"} IN
    (names \ {""})
    \cup {n \o "_" \o ToString(ts) : n \in names \ {""}, ts \in Timestamps}

\* ------------------------------------------------------------------------
\* The project tree (std::path, std::fs) and the layout of hugo.rs
\* ------------------------------------------------------------------------
\* A path is the sequence of its components; project_path is Root.
Root == <<"site">>

\* Path::starts_with: component-wise prefix
PathStartsWith(p, base) ==
    Len(p) >= Len(base) /\ SubSeq(p, 1, Len(base)) = base
\* Path::parent (of a path with at least two components)
Parent(p) == SubSeq(p, 1, Len(p) - 1)
\* Path::file_name
FileName(p) == p[Len(p)]
\* Path::extension and Path::file_stem, for the file names of the model
Extension(name) ==
    CASE name \in {"a.md", "b.md", "c.md", "index.md", "_index.md"} -> "md"
      [] name = "n.txt" -> "txt"
      [] name \in {stem \o ".md" : stem \in CreatedStems} -> "md"
      [] OTHER -> ""
FileStem(name) ==
    CASE name = "a.md" -> Wa
      [] name = "b.md" -> Wb
      [] name = "c.md" -> "c"
      [] name = "index.md" -> "index"
      [] name = "_index.md" -> "_index"
      [] name = "n.txt" -> "n"
      [] name \in {stem \o ".md" : stem \in CreatedStems} ->
             CHOOSE stem \in CreatedStems : name = stem \o ".md"
      [] OTHER -> name
\* Path::strip_prefix(project_path)
StripPrefix(p, base) ==
    IF PathStartsWith(p, base)
    THEN Some(SubSeq(p, Len(base) + 1, Len(p))) ELSE None

\* the separators the host accepts when it reads a path from a string
HostSeparators(host) == IF host = "\\" THEN {"\\", "/"} ELSE {"/"}

RECURSIVE JoinComponents(_, _)
\* the text of a path: its components with s between them
JoinComponents(p, s) ==
    IF p = <<>> THEN ""
    ELSE IF Len(p) = 1 THEN p[1]
    ELSE p[1] \o s \o JoinComponents(Tail(p), s)

\* Path::to_str of a relative path, and of an absolute one, whose
\* components were joined on the host
to_str(p) == JoinComponents(p, sep)
to_str_absolute(p) == sep \o JoinComponents(p, sep)
\* the text, below the project root, of an entry of a walk: WalkDir joins
\* the names it reads to the directory it was given
WalkText(p) == to_str(SubSeq(p, Len(Root) + 1, Len(p)))
\* file_path.strip_prefix(project_path).ok().and_then(|p| p.to_str()), for
\* a path whose text below the project root is text: the text is kept
StripPrefixText(file_path, text) ==
    IF StripPrefix(file_path, Root) # None THEN Some(text) ELSE None

\* Path::exists, Path::is_file
Exists(p) == p \in dirs \/ p \in DOMAIN files
IsFile(p) == p \in DOMAIN files

\* HugoProject::get_content_dir
get_content_dir == Root \o <<"content">>

\* variant of get_posts_dir: content/post is preferred
get_posts_dir_singular_first ==
    LET content_dir == Root \o <<"content">>
        posts_dir == content_dir \o <<"posts">>
        post_dir == content_dir \o <<"post">> IN
    IF Exists(post_dir) THEN post_dir
    ELSE IF Exists(posts_dir) THEN posts_dir
    ELSE content_dir

\* HugoProject::get_posts_dir
get_posts_dir ==
    LET content_dir == get_content_dir
        posts_dir == content_dir \o <<"posts">>
        post_dir == content_dir \o <<"post">> IN
    IF Exists(posts_dir) THEN posts_dir
    ELSE IF Exists(post_dir) THEN post_dir
    ELSE content_dir

\* HugoProject::get_pages_dir
get_pages_dir == get_content_dir

\* ------------------------------------------------------------------------
\* Content items built from files
\* ------------------------------------------------------------------------
PlainDoc == <<D3, NL, Kt, Wa, NL, Kd, Wb, NL, D3, NL, Wa>>
DraftDoc == <<D3, NL, Kt, Wa, NL, Kd, Wb, NL, Kf, TRUE_, NL, Kx, Wa, NL, D3, NL, Wa>>
Prose == <<H1, Wb, NL, Wa>>

\* the files that can be written: text, modification time, whether
\* fs::read_to_string succeeds on it, and whether fs::metadata does
FileChoices ==
    {[text |-> PlainDoc, modified_at |-> 1, readable |-> TRUE, metadata |-> TRUE],
     [text |-> DraftDoc, modified_at |-> 2, readable |-> TRUE, metadata |-> TRUE],
     [text |-> Prose, modified_at |-> 2, readable |-> TRUE, metadata |-> TRUE],
     [text |-> <<>>, modified_at |-> 1, readable |-> FALSE, metadata |-> TRUE]}
\* a file that is read and whose metadata cannot be had
NoMetadata ==
    [text |-> PlainDoc, modified_at |-> 2, readable |-> TRUE, metadata |-> FALSE]

\* chrono to_rfc3339_opts of a modification time
to_rfc3339(t) == IF t = 1 THEN <<"T1">> ELSE IF t = 2 THEN <<"T2">> ELSE <<"T0">>

RECURSIVE FirstHeading(_)
\* the loop of extract_title_from_markdown over the lines
FirstHeading(lines) ==
    IF lines = <<>> THEN None
    ELSE LET trimmed == Trim(lines[1]) IN
         IF StartsWith(trimmed, H1) /\ Trim(Tail(trimmed)) # <<>>
         THEN Some(Trim(Tail(trimmed)))
         ELSE FirstHeading(Tail(lines))

\* str::lines of the body, then the loop
extract_title_from_markdown(content) ==
    IF content = <<>> THEN None ELSE FirstHeading(SplitAll(content, NL))

\* Result<T, String>
Err == [ok |-> FALSE]
Ok(item) == [ok |-> TRUE, item |-> item]

\* Post::from_file, after the file is read and parsed
PostFromDocument(file_path, text, parsed, modified_at) ==
    LET heading == extract_title_from_markdown(parsed.content)
        title == IF parsed.frontmatter.title = <<Wu>>
                 THEN IF heading # None THEN heading[1]
                      ELSE <<FileStem(FileName(file_path))>>
                 ELSE parsed.frontmatter.title
        date == IF parsed.had_no_frontmatter \/ parsed.frontmatter.date = <<>>
                THEN to_rfc3339(modified_at)
                ELSE parsed.frontmatter.date
        stripped == StripPrefixText(file_path, text) IN
    [id |-> IF stripped # None THEN stripped[1]
            ELSE to_str_absolute(file_path),
     title |-> title,
     date |-> date,
     content |-> parsed.content,
     frontmatter |-> [parsed.frontmatter EXCEPT !.title = title, !.date = date],
     file_path |-> file_path,
     modified_at |-> modified_at]

\* variant of Post::from_file: a failure of fs::metadata is not an error
PostFromFileAnyMetadata(file_path, text) ==
    IF ~IsFile(file_path) \/ ~files[file_path].readable THEN Err
    ELSE Ok(PostFromDocument(file_path, text, Parse(files[file_path].text),
                             files[file_path].modified_at))

\* Post::from_file
PostFromFile(file_path, text) ==
    IF ~IsFile(file_path) \/ ~files[file_path].readable THEN Err
    ELSE IF ~files[file_path].metadata THEN Err
    ELSE Ok(PostFromDocument(file_path, text, Parse(files[file_path].text),
                             files[file_path].modified_at))

\* Page::from_file and Draft::from_file (the two bodies are the same), after
\* the file is read and parsed
PageFromDocument(file_path, text, parsed, modified_at) ==
    LET stripped == StripPrefixText(file_path, text) IN
    [id |-> IF stripped # None THEN stripped[1] ELSE "",
     title |-> parsed.frontmatter.title,
     content |-> parsed.content,
     frontmatter |-> parsed.frontmatter,
     file_path |-> file_path,
     modified_at |-> modified_at]

\* Page::from_file
PageFromFile(file_path, text) ==
    IF ~IsFile(file_path) \/ ~files[file_path].readable THEN Err
    ELSE IF ~files[file_path].metadata THEN Err
    ELSE Ok(PageFromDocument(file_path, text, Parse(files[file_path].text),
                             files[file_path].modified_at))

\* Draft::from_file
DraftFromFile(file_path, text) == PageFromFile(file_path, text)

\* Option<bool>::unwrap_or(false)
UnwrapOrFalse(opt) == opt # None /\ opt[1]

\* ------------------------------------------------------------------------
\* walkdir::WalkDir::new(root).max_depth(n) and the listing commands
\* ------------------------------------------------------------------------
WalkDepth == 4

\* the file entries a walk of root yields: the files at most max_depth
\* levels below root
WalkFiles(root, max_depth) ==
    {p \in DOMAIN files : PathStartsWith(p, root) /\ Len(p) - Len(root) <= max_depth}

\* the sequences without repetition over a finite set
Orders(S) ==
    {s \in [1..Cardinality(S) -> S] : \A i, j \in 1..Cardinality(S) : s[i] = s[j] => i = j}

\* the orders in which a depth-first walk can yield the files: the entries
\* of a directory come in the order the system returns them, and the
\* files below one directory come together
WalkOrders(root, max_depth) ==
    {s \in Orders(WalkFiles(root, max_depth)) :
        \A i, j, k \in 1..Len(s) :
            i < j /\ j < k =>
                \A n \in Len(root)..Len(s[i]) - 1 :
                    LET d == SubSeq(s[i], 1, n) IN
                    PathStartsWith(s[k], d) => PathStartsWith(s[j], d)}

RECURSIVE InsertByModified(_, _)
\* place x after every item that is at least as recent
InsertByModified(sorted, x) ==
    IF sorted = <<>> THEN <<x>>
    ELSE IF sorted[1].modified_at >= x.modified_at
         THEN <<sorted[1]>> \o InsertByModified(Tail(sorted), x)
         ELSE <<x>> \o sorted

\* variant of the sort: the items stay in the order of the walk
KeepWalkOrder(items) == items

RECURSIVE SortByModifiedDesc(_)
\* items.sort_by(|a, b| b.modified_at.cmp(&a.modified_at)), a stable sort
SortByModifiedDesc(items) ==
    IF items = <<>> THEN <<>>
    ELSE InsertByModified(SortByModifiedDesc(SubSeq(items, 1, Len(items) - 1)),
                          items[Len(items)])

\* the match on the result of from_file in list_posts and list_pages: an
\* item is pushed unless its draft flag is true; an error is logged
PushUnlessDraft(res) ==
    IF res.ok
    THEN IF UnwrapOrFalse(res.item.frontmatter.draft) THEN <<>>
         ELSE <<res.item>>
    ELSE <<>>

\* variant of the list_posts loop body: no test against the drafts directory
PostsStepAnyDir(path, drafts_dir) ==
    IF Extension(FileName(path)) = "md"
    THEN IF FileName(path) = "_index.md" THEN <<>>
         ELSE PushUnlessDraft(PostFromFile(path, WalkText(path)))
    ELSE <<>>

\* variant of the list_posts loop body: no test of the file name
PostsStepKeepSectionIndex(path, drafts_dir) ==
    IF Extension(FileName(path)) = "md"
    THEN IF Exists(drafts_dir) /\ PathStartsWith(path, drafts_dir) THEN <<>>
         ELSE PushUnlessDraft(PostFromFile(path, WalkText(path)))
    ELSE <<>>

\* the body of the loop of list_posts for one entry: the posts it pushes
PostsStep(path, drafts_dir) ==
    IF Extension(FileName(path)) = "md"
    THEN IF FileName(path) = "_index.md" THEN <<>>
         ELSE IF Exists(drafts_dir) /\ PathStartsWith(path, drafts_dir) THEN <<>>
         ELSE PushUnlessDraft(PostFromFile(path, WalkText(path)))
    ELSE <<>>

RECURSIVE PostsLoop(_, _)
\* the loop of list_posts over the entries of the walk: the posts pushed
PostsLoop(walk, drafts_dir) ==
    IF walk = <<>> THEN <<>>
    ELSE PostsStep(walk[1], drafts_dir) \o PostsLoop(Tail(walk), drafts_dir)

\* list_posts, for the order walk in which the entries arrive
list_posts(walk) ==
    LET drafts_dir == get_content_dir \o <<"drafts">> IN
    IF ~Exists(get_posts_dir) THEN <<>>
    ELSE SortByModifiedDesc(PostsLoop(walk, drafts_dir))

\* variant of the list_pages loop body: every markdown file outside the
\* posts and drafts directories is a page
PagesStepAnyFile(path, pages_dir, posts_dir, drafts_dir) ==
    LET should_skip_posts == posts_dir # pages_dir IN
    IF Extension(FileName(path)) # "md" THEN <<>>
    ELSE IF (should_skip_posts /\ PathStartsWith(path, posts_dir))
            \/ PathStartsWith(path, drafts_dir) THEN <<>>
    ELSE PushUnlessDraft(PageFromFile(path, WalkText(path)))

\* the body of the loop of list_pages for one entry
PagesStep(path, pages_dir, posts_dir, drafts_dir) ==
    LET should_skip_posts == posts_dir # pages_dir
        is_index == FileName(path) \in {"index.md", "_index.md"}
        is_root_page == Parent(path) = pages_dir IN
    IF Extension(FileName(path)) # "md" THEN <<>>
    ELSE IF (should_skip_posts /\ PathStartsWith(path, posts_dir))
            \/ PathStartsWith(path, drafts_dir) THEN <<>>
    ELSE IF ~is_index /\ ~is_root_page THEN <<>>
    ELSE PushUnlessDraft(PageFromFile(path, WalkText(path)))

RECURSIVE PagesLoop(_, _, _, _)
\* the loop of list_pages over the entries of the walk: the pages pushed
PagesLoop(walk, pages_dir, posts_dir, drafts_dir) ==
    IF walk = <<>> THEN <<>>
    ELSE PagesStep(walk[1], pages_dir, posts_dir, drafts_dir)
         \o PagesLoop(Tail(walk), pages_dir, posts_dir, drafts_dir)

\* list_pages
list_pages(walk) ==
    LET pages_dir == get_pages_dir
        posts_dir == get_posts_dir
        drafts_dir == get_content_dir \o <<"drafts">> IN
    IF ~Exists(pages_dir) THEN <<>>
    ELSE SortByModifiedDesc(PagesLoop(walk, pages_dir, posts_dir, drafts_dir))

\* variant of the match in list_drafts: a draft needs both the flag and
\* the directory
PushIfFlagAndPath(res, is_draft_path) ==
    IF res.ok
    THEN IF UnwrapOrFalse(res.item.frontmatter.draft) /\ is_draft_path
         THEN <<res.item>> ELSE <<>>
    ELSE <<>>

\* the match on the result of from_file in list_drafts
PushIfDraft(res, is_draft_path) ==
    IF res.ok
    THEN IF UnwrapOrFalse(res.item.frontmatter.draft) \/ is_draft_path
         THEN <<res.item>> ELSE <<>>
    ELSE <<>>

\* the body of the loop of list_drafts for one entry
DraftsStep(path, drafts_dir) ==
    IF Extension(FileName(path)) = "md"
    THEN PushIfDraft(DraftFromFile(path, WalkText(path)),
                     Exists(drafts_dir) /\ PathStartsWith(path, drafts_dir))
    ELSE <<>>

RECURSIVE DraftsLoop(_, _)
\* the loop of list_drafts over the entries of the walk: the drafts pushed
DraftsLoop(walk, drafts_dir) ==
    IF walk = <<>> THEN <<>>
    ELSE DraftsStep(walk[1], drafts_dir) \o DraftsLoop(Tail(walk), drafts_dir)

\* list_drafts
list_drafts(walk) ==
    LET content_dir == get_content_dir
        drafts_dir == content_dir \o <<"drafts">> IN
    IF ~Exists(content_dir) THEN <<>>
    ELSE SortByModifiedDesc(DraftsLoop(walk, drafts_dir))

\* ------------------------------------------------------------------------
\* Project trees: at most MaxFiles files, written by the user or by hugo
\* ------------------------------------------------------------------------
MaxFiles == 2

ContentPaths ==
    {<<"a.md">>, <<"_index.md">>, <<"n.txt">>,
     <<"posts", "a.md">>, <<"posts", "index.md">>,
     <<"post", "a.md">>,
     <<"drafts", "b.md">>, <<"drafts", "index.md">>,
     <<"docs", "c.md">>,
     <<"docs", "v1", "api", "index.md">>,
     <<"docs", "v1", "api", "ref", "index.md">>}
FilePaths == {get_content_dir \o p : p \in ContentPaths}
DirPaths ==
    {get_content_dir, get_content_dir \o <<"posts">>,
     get_content_dir \o <<"post">>, get_content_dir \o <<"drafts">>}

\* a path's directories, from the project root down to its parent
Ancestors(p) == {SubSeq(p, 1, n) : n \in 1..(Len(p) - 1)}

\* result holds what the last command returned for the tree as it is; a
\* change of the tree discards it, and a command is called when no answer
\* is held
NoResult == [op |-> "none", items |-> <<>>]

InitFS ==
    /\ raw = <<>>
    /\ stage = "input"
    /\ doc = NoDoc
    /\ md = <<>>
    /\ doc2 = NoDoc
    /\ dirs = {Root}
    /\ files = <<>>
    /\ result = NoResult
    /\ sep = "/"
    /\ reply = NoReply
    /\ AppAtStart

\* fs::create_dir_all(d), by the user or by hugo
CreateDirAll ==
    \E d \in DirPaths :
        /\ d \notin dirs
        /\ dirs' = dirs \cup Ancestors(d) \cup {d}
        /\ result' = NoResult
        /\ UNCHANGED <<pvars, files, cvars, avars>>

\* a new file, with the directories above it, by the user or by hugo
WriteFile ==
    \E p \in FilePaths, f \in FileChoices :
        /\ p \notin DOMAIN files
        /\ Cardinality(DOMAIN files) < MaxFiles
        /\ dirs' = dirs \cup Ancestors(p)
        /\ files' = [q \in DOMAIN files \cup {p} |-> IF q = p THEN f ELSE files[q]]
        /\ result' = NoResult
        /\ UNCHANGED <<pvars, cvars, avars>>

\* list_posts(project_path)
ListPosts ==
    \E walk \in WalkOrders(get_posts_dir, WalkDepth) :
        /\ result = NoResult
        /\ result' = [op |-> "list_posts", items |-> list_posts(walk)]
        /\ UNCHANGED <<pvars, dirs, files, cvars, avars>>

\* list_pages(project_path)
ListPages ==
    \E walk \in WalkOrders(get_pages_dir, WalkDepth) :
        /\ result = NoResult
        /\ result' = [op |-> "list_pages", items |-> list_pages(walk)]
        /\ UNCHANGED <<pvars, dirs, files, cvars, avars>>

\* list_drafts(project_path)
ListDrafts ==
    \E walk \in WalkOrders(get_content_dir, WalkDepth) :
        /\ result = NoResult
        /\ result' = [op |-> "list_drafts", items |-> list_drafts(walk)]
        /\ UNCHANGED <<pvars, dirs, files, cvars, avars>>

NextFS == CreateDirAll \/ WriteFile \/ ListPosts \/ ListPages \/ ListDrafts

SpecFS == InitFS /\ [][NextFS]_vars

\* ------------------------------------------------------------------------
\* get_*, save_* and delete_* of posts, pages and drafts (commands.rs)
\* ------------------------------------------------------------------------
\* the hosts: their main separators
Hosts == {"/", "\\"}

\* the files of the trees these commands are called on, relative to the
\* project root
ItemRels ==
    {<<"content", "a.md">>, <<"content", "posts", "a.md">>,
     <<"content", "docs", "index.md">>}
ItemPaths == {Root \o rel : rel \in ItemRels}
\* the files of the trees delete_page is called on: files directly in
\* content, in posts and in drafts, and an index file with a file next to it
PageRels ==
    {<<"content", "a.md">>, <<"content", "posts", "index.md">>,
     <<"content", "drafts", "a.md">>, <<"content", "docs", "index.md">>,
     <<"content", "docs", "b.md">>}
ItemChoices == {f \in FileChoices : f.text # Prose} \cup {NoMetadata}

\* the ids a caller passes: the relative paths written with either separator
IdChoices == {JoinComponents(rel, s) : rel \in ItemRels, s \in Hosts}

\* the components the host reads from the text of a relative path: the
\* text is cut at the separators of the host, so a text written with a
\* separator the host does not know is one component
Components(id) ==
    IF \E rel \in ItemRels \cup PageRels, s \in HostSeparators(sep) :
           JoinComponents(rel, s) = id
    THEN CHOOSE rel \in ItemRels \cup PageRels :
             \E s \in HostSeparators(sep) : JoinComponents(rel, s) = id
    ELSE <<id>>

\* Path::new(&project_path).join(&id)
Join(base, id) == base \o Components(id)

\* the value a command returns, with the arguments of the call
Reply(op, id, file_path, res, err) ==
    [op |-> op, id |-> id, file_path |-> file_path, ok |-> res.ok,
     err |-> IF res.ok THEN "" ELSE err,
     item |-> IF res.ok THEN <<res.item>> ELSE <<>>]
\* Ok(())
Unit == [ok |-> TRUE, item |-> <<>>]

\* the trees at the start: at most MaxFiles files, with their directories
ItemTrees ==
    UNION {[S -> ItemChoices] : S \in {T \in SUBSET ItemPaths : Cardinality(T) <= MaxFiles}}

InitItems ==
    /\ raw = <<>>
    /\ stage = "input"
    /\ doc = NoDoc
    /\ md = <<>>
    /\ doc2 = NoDoc
    /\ sep \in Hosts
    /\ files \in ItemTrees
    /\ dirs = {Root} \cup UNION {Ancestors(p) : p \in DOMAIN files}
    /\ result = NoResult
    /\ reply = NoReply
    /\ AppAtStart

\* get_post(project_path, post_id)
GetPost ==
    \E post_id \in IdChoices :
        LET file_path == Join(Root, post_id) IN
        /\ reply' = IF ~Exists(file_path)
                    THEN Reply("get_post", post_id, <<>>, Err, "Post not found")
                    ELSE Reply("get_post", post_id, <<>>, PostFromFile(file_path, post_id),
                               "Failed to read file")
        /\ UNCHANGED <<pvars, fvars, sep, avars>>

\* get_page(project_path, page_id)
GetPage ==
    \E page_id \in IdChoices :
        LET file_path == Join(Root, page_id) IN
        /\ reply' = IF ~Exists(file_path)
                    THEN Reply("get_page", page_id, <<>>, Err, "Page not found")
                    ELSE Reply("get_page", page_id, <<>>, PageFromFile(file_path, page_id),
                               "Failed to read file")
        /\ UNCHANGED <<pvars, fvars, sep, avars>>

\* get_draft(project_path, draft_id)
GetDraft ==
    \E draft_id \in IdChoices :
        LET file_path == Join(Root, draft_id) IN
        /\ reply' = IF ~Exists(file_path)
                    THEN Reply("get_draft", draft_id, <<>>, Err, "Draft not found")
                    ELSE Reply("get_draft", draft_id, <<>>, DraftFromFile(file_path, draft_id),
                               "Failed to read file")
        /\ UNCHANGED <<pvars, fvars, sep, avars>>

\* the time of a write: later than the times of the files at the start
Now == 3

\* the items a caller saves: an id and a file_path, each of a file of the
\* tree, with a document
SaveChoices ==
    {[id |-> JoinComponents(rel, "/"), file_path |-> p,
      frontmatter |-> [DefaultFrontmatter EXCEPT !.title = <<Wa>>, !.date = <<Wb>>],
      content |-> <<Wb>>] : rel \in ItemRels, p \in ItemPaths}

\* fs::write(file_path, markdown): the file is created or replaced when the
\* directory above it exists and the path is no directory
CanWrite(file_path) == Parent(file_path) \in dirs /\ file_path \notin dirs
WrittenFiles(file_path, markdown) ==
    [q \in DOMAIN files \cup {file_path} |->
        IF q = file_path
        THEN [text |-> markdown, modified_at |-> Now, readable |-> TRUE,
              metadata |-> TRUE]
        ELSE files[q]]

\* the files after fs::write(file_path, markdown), which may fail
SavedFiles(item) ==
    IF CanWrite(item.file_path)
    THEN WrittenFiles(item.file_path, to_markdown(item.frontmatter, item.content))
    ELSE files
\* a file is added only while the tree holds fewer than MaxFiles files
WithinTree(item) ==
    item.file_path \in DOMAIN files \/ Cardinality(DOMAIN files) < MaxFiles
\* the value save_* returns
SaveReply(op, item, err) ==
    Reply(op, item.id, item.file_path,
          IF CanWrite(item.file_path) THEN Unit ELSE Err, err)

\* save_post(_project_path, post)
SavePost ==
    \E post \in SaveChoices :
        /\ WithinTree(post)
        /\ files' = SavedFiles(post)
        /\ reply' = SaveReply("save_post", post, "Failed to save post")
        /\ UNCHANGED <<pvars, dirs, result, sep, avars>>

\* save_page(_project_path, page)
SavePage ==
    \E page \in SaveChoices :
        /\ WithinTree(page)
        /\ files' = SavedFiles(page)
        /\ reply' = SaveReply("save_page", page, "Failed to save page")
        /\ UNCHANGED <<pvars, dirs, result, sep, avars>>

\* save_draft(_project_path, draft)
SaveDraft ==
    \E draft \in SaveChoices :
        /\ WithinTree(draft)
        /\ files' = SavedFiles(draft)
        /\ reply' = SaveReply("save_draft", draft, "Failed to save draft")
        /\ UNCHANGED <<pvars, dirs, result, sep, avars>>

\* fs::remove_file(file_path): the files left
RemovedFile(file_path) == [q \in DOMAIN files \ {file_path} |-> files[q]]

\* variant of the removal: the file stays
FilesKept(file_path) == files

\* the files after the existence test and fs::remove_file(file_path)
FilesAfterRemove(file_path) ==
    IF IsFile(file_path) THEN RemovedFile(file_path) ELSE files
\* the value delete_post and delete_draft return
DeleteReply(op, id, file_path, not_found, failed) ==
    IF ~Exists(file_path) THEN Reply(op, id, <<>>, Err, not_found)
    ELSE IF IsFile(file_path) THEN Reply(op, id, <<>>, Unit, failed)
    ELSE Reply(op, id, <<>>, Err, failed)

\* delete_post(project_path, post_id)
DeletePost ==
    \E post_id \in IdChoices :
        /\ files' = FilesAfterRemove(Join(Root, post_id))
        /\ reply' = DeleteReply("delete_post", post_id, Join(Root, post_id),
                                "Post not found", "Failed to delete post")
        /\ UNCHANGED <<pvars, dirs, result, sep, avars>>

\* delete_draft(project_path, draft_id)
DeleteDraft ==
    \E draft_id \in IdChoices :
        /\ files' = FilesAfterRemove(Join(Root, draft_id))
        /\ reply' = DeleteReply("delete_draft", draft_id, Join(Root, draft_id),
                                "Draft not found", "Failed to delete draft")
        /\ UNCHANGED <<pvars, dirs, result, sep, avars>>

\* the ids of the files of the tree, as the listings write them
TreeIds == {to_str(SubSeq(q, Len(Root) + 1, Len(q))) : q \in DOMAIN files}

\* variant of the test of the parent: it is taken to be empty
EmptyAnyway(parent, file_path) == TRUE

\* fs::read_dir(parent) yields nothing, once file_path is removed
EmptyWithout(parent, file_path) ==
    /\ \A q \in DOMAIN files \ {file_path} : ~PathStartsWith(q, parent)
    /\ \A d \in dirs \ {parent} : ~PathStartsWith(d, parent)

\* delete_page(project_path, page_id)
DeletePage ==
    \E page_id \in IdChoices \cup TreeIds :
        LET file_path == Join(Root, page_id)
            parent == Parent(file_path) IN
        /\ IF ~Exists(file_path)
           THEN /\ UNCHANGED <<files, dirs>>
                /\ reply' = Reply("delete_page", page_id, <<>>, Err, "Page not found")
           ELSE IF FileName(parent) = "content"
           THEN /\ UNCHANGED <<files, dirs>>
                /\ reply' = Reply("delete_page", page_id, <<>>, Err,
                                  "Refusing to delete content root")
           ELSE IF FileName(parent) \in {"posts", "drafts"}
           THEN /\ UNCHANGED <<files, dirs>>
                /\ reply' = Reply("delete_page", page_id, <<>>, Err, "Invalid page path")
           ELSE IF ~IsFile(file_path)
           THEN /\ UNCHANGED <<files, dirs>>
                /\ reply' = Reply("delete_page", page_id, <<>>, Err,
                                  "Failed to delete page")
           ELSE /\ files' = RemovedFile(file_path)
                /\ dirs' = IF FileName(file_path) \in {"index.md", "_index.md"}
                              /\ EmptyWithout(parent, file_path)
                           THEN dirs \ {parent} ELSE dirs
                /\ reply' = Reply("delete_page", page_id, <<>>, Unit, "")
        /\ UNCHANGED <<pvars, result, sep, avars>>

NextItems ==
    \/ GetPost \/ GetPage \/ GetDraft
    \/ SavePost \/ SavePage \/ SaveDraft
    \/ DeletePost \/ DeletePage \/ DeleteDraft

SpecItems == InitItems /\ [][NextItems]_vars

\* the listing commands on the trees and hosts of InitItems
NextHosts == ListPosts \/ ListPages \/ ListDrafts

SpecHosts == InitItems /\ [][NextHosts]_vars

\* the trees delete_page is called on: at most MaxFiles files of PageRels
PageTrees ==
    UNION {[S -> ItemChoices] :
              S \in {T \in SUBSET {Root \o rel : rel \in PageRels} :
                         Cardinality(T) <= MaxFiles}}

InitPages ==
    /\ raw = <<>>
    /\ stage = "input"
    /\ doc = NoDoc
    /\ md = <<>>
    /\ doc2 = NoDoc
    /\ sep \in Hosts
    /\ files \in PageTrees
    /\ dirs = {Root} \cup UNION {Ancestors(q) : q \in DOMAIN files}
    /\ result = NoResult
    /\ reply = NoReply
    /\ AppAtStart

\* delete_page and list_pages on the trees of InitPages
NextPages == DeletePage \/ ListPages

SpecPages == InitPages /\ [][NextPages]_vars

\* ------------------------------------------------------------------------
\* HugoProject::validate, find_config_path and get_posts_dir (hugo.rs)
\* ------------------------------------------------------------------------
\* Path::is_dir
IsDir(p) == p \in dirs

\* the candidates of find_config_path, in its order
candidates ==
    <<"hugo.toml", "hugo.yaml", "hugo.yml", "hugo.json",
      "config.toml", "config.yaml", "config.yml", "config.json">>

RECURSIVE FirstExisting(_, _)
\* the loop over the candidates from position i on: the first whose path
\* under dir exists
FirstExisting(dir, i) ==
    IF i > Len(candidates) THEN None
    ELSE IF Exists(dir \o <<candidates[i]>>) THEN Some(dir \o <<candidates[i]>>)
    ELSE FirstExisting(dir, i + 1)

\* variant of find_config_path: config/_default is searched first
find_config_nested_first ==
    LET nested == FirstExisting(Root \o <<"config", "_default">>, 1) IN
    IF nested # None THEN nested ELSE FirstExisting(Root, 1)

\* HugoProject::find_config_path
find_config_path ==
    LET at_root == FirstExisting(Root, 1)
        config_dir == Root \o <<"config", "_default">> IN
    IF at_root # None THEN at_root ELSE FirstExisting(config_dir, 1)

ConfigNotFound == "Hugo config not found (config.* or hugo.*)"
ContentNotFound == "content/ directory not found"

\* variant of validate: the content directory is tested first
validate_content_first ==
    LET content_path == get_content_dir IN
    IF ~Exists(content_path) \/ ~IsDir(content_path)
    THEN [ok |-> FALSE, err |-> ContentNotFound]
    ELSE IF find_config_path = None THEN [ok |-> FALSE, err |-> ConfigNotFound]
    ELSE [ok |-> TRUE, item |-> TRUE, err |-> ""]

\* HugoProject::validate
validate ==
    LET content_path == get_content_dir IN
    IF find_config_path = None THEN [ok |-> FALSE, err |-> ConfigNotFound]
    ELSE IF ~Exists(content_path) \/ ~IsDir(content_path)
    THEN [ok |-> FALSE, err |-> ContentNotFound]
    ELSE [ok |-> TRUE, item |-> TRUE, err |-> ""]

\* at most MaxConfigs of the candidate paths exist at a time
MaxConfigs == 2

ConfigDir == Root \o <<"config", "_default">>
ConfigPaths ==
    {Root \o <<candidates[i]>> : i \in 1..Len(candidates)}
    \cup {ConfigDir \o <<candidates[i]>> : i \in 1..Len(candidates)}
\* the paths of the layout that are made and removed
LayoutDirs ==
    {get_content_dir, get_content_dir \o <<"posts">>, get_content_dir \o <<"post">>}
\* a file of a project whose text is not read here
SomeFile == [text |-> <<>>, modified_at |-> 1, readable |-> TRUE, metadata |-> TRUE]

\* a project root with the directory config/_default and nothing else
InitLayout ==
    /\ raw = <<>>
    /\ stage = "input"
    /\ doc = NoDoc
    /\ md = <<>>
    /\ doc2 = NoDoc
    /\ sep = "/"
    /\ dirs = {Root} \cup Ancestors(ConfigDir) \cup {ConfigDir}
    /\ files = <<>>
    /\ result = NoResult
    /\ reply = NoReply
    /\ AppAtStart

\* reply holds what the last command returned for the tree as it is: a
\* change of the tree discards it
\* a file is written at a candidate path or at the path of the content root
PutFile ==
    \E p \in ConfigPaths \cup {get_content_dir} :
        /\ ~Exists(p)
        /\ p \in ConfigPaths =>
              Cardinality({q \in ConfigPaths : Exists(q)}) < MaxConfigs
        /\ files' = [q \in DOMAIN files \cup {p} |-> IF q = p THEN SomeFile ELSE files[q]]
        /\ reply' = NoReply
        /\ UNCHANGED <<pvars, dirs, result, sep, avars>>

\* fs::create_dir_all of a candidate path or of a directory of the layout
MakeDir ==
    \E d \in ConfigPaths \cup LayoutDirs :
        /\ ~Exists(d)
        /\ \A a \in Ancestors(d) : ~IsFile(a)
        /\ d \in ConfigPaths =>
              Cardinality({q \in ConfigPaths : Exists(q)}) < MaxConfigs
        /\ dirs' = dirs \cup Ancestors(d) \cup {d}
        /\ reply' = NoReply
        /\ UNCHANGED <<pvars, files, result, sep, avars>>

\* fs::remove_file or fs::remove_dir_all of a path that was made
RemovePath ==
    \E p \in ConfigPaths \cup LayoutDirs :
        /\ Exists(p)
        /\ dirs' = {d \in dirs : ~PathStartsWith(d, p)}
        /\ files' = [q \in {f \in DOMAIN files : ~PathStartsWith(f, p)} |-> files[q]]
        /\ reply' = NoReply
        /\ UNCHANGED <<pvars, result, sep, avars>>

\* project.validate()
Validate ==
    /\ reply = NoReply
    /\ reply' = Reply("validate", "", <<>>, validate, validate.err)
    /\ UNCHANGED <<pvars, fvars, sep, avars>>

\* project.find_config_path()
FindConfigPath ==
    /\ reply = NoReply
    /\ reply' = [NoReply EXCEPT !.op = "find_config_path", !.item = find_config_path]
    /\ UNCHANGED <<pvars, fvars, sep, avars>>

\* project.get_posts_dir()
GetPostsDir ==
    /\ reply = NoReply
    /\ reply' = [NoReply EXCEPT !.op = "get_posts_dir", !.item = <<get_posts_dir>>]
    /\ UNCHANGED <<pvars, fvars, sep, avars>>

NextLayout ==
    PutFile \/ MakeDir \/ RemovePath \/ Validate \/ FindConfigPath \/ GetPostsDir

SpecLayout == InitLayout /\ [][NextLayout]_vars

\* ------------------------------------------------------------------------
\* Properties of MarkdownDocument::parse and to_markdown
\* ------------------------------------------------------------------------
Attempts(t) == <<TryStandard(t), TryToml(t), TryJson(t), TryAlternative(t)>>
AnyAttemptOk(t) == LET A == Attempts(t) IN \E i \in 1..4 : A[i].ok
DefaultDocument(t) ==
    [frontmatter |-> DefaultFrontmatter, content |-> t,
     had_no_frontmatter |-> TRUE]
DocumentFields ==
    {"title", "date", "tags", "categories", "updated", "comments", "layout",
     "permalink", "description", "draft", "custom_fields"}

\* what parse(t) must be, said without the chain: the first attempt that
\* succeeds, in the order standard, toml, json, alternative; else the default
FirstSuccess(t) ==
    LET A == Attempts(t) IN
    IF \E i \in 1..4 : A[i].ok
    THEN LET first == CHOOSE i \in 1..4 :
                 A[i].ok /\ \A j \in 1..(i - 1) : ~A[j].ok
         IN Document(A[first], FALSE)
    ELSE DefaultDocument(t)

\* C1: parse returns a document for every text; the flag is TRUE exactly
\* when no branch succeeds, and then the document is the default one (title
\* "Untitled Post", empty date, no tags, no categories, no optional field,
\* empty custom_fields) with the whole text, unmodified, as content.
C1_ParseTotalWithDefault ==
    stage # "input" =>
        /\ DOMAIN doc.frontmatter = DocumentFields
        /\ doc.had_no_frontmatter = ~AnyAttemptOk(raw)
        /\ doc.had_no_frontmatter =>
              /\ doc.frontmatter.title = <<Wu>>
              /\ doc.frontmatter.date = <<>>
              /\ doc.frontmatter.tags = <<>>
              /\ doc.frontmatter.categories = <<>>
              /\ \A f \in {"updated", "comments", "layout", "permalink",
                           "description", "draft"} : doc.frontmatter[f] = None
              /\ DOMAIN doc.frontmatter.custom_fields = {}
              /\ doc.content = raw

\* a text with an opening marker and surrounding blank lines that no branch
\* decodes
C1_Witness ==
    /\ stage = "parsed"
    /\ doc.had_no_frontmatter
    /\ FindTok(raw, D3, 1) # 0
    /\ Trim(raw) # raw

\* C2: the document is the one of the first branch, in the order standard
\* (---), toml (+++), json ({), alternative (headerless), that matches and
\* decodes; a branch that matches but fails to decode or bind does not end
\* the chain, and the default is returned only when every branch fails.
C2_FirstSuccessWins ==
    /\ stage # "input" => doc = FirstSuccess(raw)
    /\ stage = "reparsed" => doc2 = FirstSuccess(md)

\* the opening marker matches and the text splits in three, the payload
\* does not bind, and the headerless branch produces the document
C2_Witness ==
    /\ stage = "parsed"
    /\ StartsWith(raw, D3)
    /\ Len(SplitN3(raw, D3)) = 3
    /\ ~TryStandard(raw).ok
    /\ TryAlternative(raw).ok
    /\ ~doc.had_no_frontmatter

C4_RoundTrip ==
    stage = "reparsed" /\ ~doc.had_no_frontmatter =>
        /\ ~doc2.had_no_frontmatter
        /\ doc2.frontmatter = doc.frontmatter
        /\ doc2.content = doc.content

\* the key/value entries of the payload that the winning branch decoded
DecodedEntries(t) ==
    IF TryStandard(t).ok THEN YamlEntries(Trim(SplitN3(t, D3)[2])).entries
    ELSE IF TryToml(t).ok THEN TomlEntries(Trim(SplitN3(t, P3)[2])).entries
    ELSE IF TryJson(t).ok
         THEN YamlEntries(split_json_frontmatter(t).frontmatter_str).entries
    ELSE IF TryAlternative(t).ok
         THEN YamlEntries(Trim(SubSeq(t, 1, FindNlD3(t, 1) - 1))).entries
    ELSE <<>>

\* C5: whichever branch produced the document, custom_fields holds no key
\* of the fixed schema, and every key of the source that is not in the
\* fixed schema is in custom_fields with its decoded value.
C5_BagExclusive ==
    stage # "input" =>
        LET bag == doc.frontmatter.custom_fields
            src == DecodedEntries(raw) IN
        /\ DOMAIN bag \cap FixedKeys = {}
        /\ \A i \in 1..Len(src) :
              src[i].key \notin FixedKeys =>
                 /\ src[i].key \in DOMAIN bag
                 /\ bag[src[i].key] = src[i].val

\* a source with the known key draft and the unknown key x
C5_Witness ==
    /\ stage = "parsed"
    /\ ~doc.had_no_frontmatter
    /\ doc.frontmatter.draft = Some(TRUE)
    /\ "x" \in DOMAIN doc.frontmatter.custom_fields

\* nesting depth after the first i tokens: opening minus closing braces
Depth(s, i) ==
    Cardinality({j \in 1..i : s[j] = LB}) - Cardinality({j \in 1..i : s[j] = RB})
\* the positions of the braces that close the opening brace
Closers(s) == {i \in 1..Len(s) : s[i] = RB /\ Depth(s, i) = 0}
MatchingBrace(s) == CHOOSE i \in Closers(s) : \A j \in Closers(s) : i <= j

\* C6: when the first non-whitespace character is "{", the object ends at
\* the brace that brings the nesting depth back to zero: the decoded text
\* runs from the start through that brace, the body is the rest, trimmed,
\* whatever braces the rest holds; with no such brace the branch fails.
C6_MatchingBrace ==
    stage # "input" /\ StartsWith(TrimStart(raw), LB) =>
        IF Closers(raw) = {}
        THEN ~TryJson(raw).ok /\ ~split_json_frontmatter(raw).some
        ELSE LET idx == MatchingBrace(raw)
                 text == Trim(SubSeq(raw, 1, idx))
                 body == Trim(SubSeq(raw, idx + 1, Len(raw)))
                 decoded == FromYaml(text) IN
             /\ split_json_frontmatter(raw).frontmatter_str = text
             /\ split_json_frontmatter(raw).content = body
             /\ TryJson(raw).ok = decoded.ok
             /\ decoded.ok =>
                   /\ doc.frontmatter = decoded.frontmatter
                   /\ doc.content = body

\* leading blank line, an object with a nested object, a brace in the body
C6_Witness ==
    /\ stage = "parsed"
    /\ StartsWith(raw, NL)
    /\ StartsWith(TrimStart(raw), LB)
    /\ TryJson(raw).ok
    /\ "x" \in DOMAIN doc.frontmatter.custom_fields
    /\ FindTok(doc.content, LB, 1) # 0

\* the positions of the newline of each "\n---"
Separators(s) == {i \in 1..(Len(s) - 1) : s[i] = NL /\ s[i + 1] = D3}
FirstSeparator(s) == CHOOSE i \in Separators(s) : \A j \in Separators(s) : i <= j
ReachesAlternative(t) ==
    ~TryStandard(t).ok /\ ~TryToml(t).ok /\ ~TryJson(t).ok

\* C7: when the chain reaches the headerless branch, the candidate is the
\* text before the first "\n---"; a document is produced only if the
\* candidate contains "title:" or "date:" and decodes, and its body is the
\* text after the marker, trimmed; without "\n---", or with a candidate
\* that contains neither substring, the result is the default.
C7_HeaderlessGate ==
    stage # "input" /\ ReachesAlternative(raw) =>
        IF Separators(raw) = {}
        THEN doc = DefaultDocument(raw)
        ELSE LET pos == FirstSeparator(raw)
                 cand == Trim(SubSeq(raw, 1, pos - 1))
                 gate == \E i \in 1..Len(cand) : cand[i] \in {Kt, Kd}
                 decoded == FromYaml(cand) IN
             IF gate /\ decoded.ok
             THEN /\ ~doc.had_no_frontmatter
                  /\ doc.frontmatter = decoded.frontmatter
                  /\ doc.content = Trim(SubSeq(raw, pos + 2, Len(raw)))
             ELSE doc = DefaultDocument(raw)

\* a candidate that would decode (its keys are quoted) but contains neither
\* "title:" nor "date:": the gate turns it down
C7_Witness ==
    /\ stage = "parsed"
    /\ ReachesAlternative(raw)
    /\ Separators(raw) # {}
    /\ FromYaml(Trim(SubSeq(raw, 1, FirstSeparator(raw) - 1))).ok
    /\ doc.had_no_frontmatter

\* ------------------------------------------------------------------------
\* Properties of the listing commands
\* ------------------------------------------------------------------------
DraftsDir == get_content_dir \o <<"drafts">>
UnderDraftsDir(p) == PathStartsWith(p, DraftsDir)
\* the draft flag decoded from the file's text
DecodedDraftFlag(p) ==
    files[p].readable /\ Parse(files[p].text).frontmatter.draft = Some(TRUE)
IsMarkdown(p) == Extension(FileName(p)) = "md"
WithinDepth(p) ==
    PathStartsWith(p, get_content_dir) /\ Len(p) - Len(get_content_dir) <= WalkDepth
Listed == {result.items[i].file_path : i \in 1..Len(result.items)}

\* C8: no file returned by list_posts or list_pages lies under the drafts
\* directory, and none has a decoded draft flag of true, whichever directory
\* get_posts_dir resolved to.
C8_NoDraftInPostsOrPages ==
    result.op \in {"list_posts", "list_pages"} =>
        \A p \in Listed :
            /\ IsFile(p)
            /\ ~UnderDraftsDir(p)
            /\ ~DecodedDraftFlag(p)

\* posts were listed from the content root while it held an unflagged
\* readable file under drafts and a flagged file outside drafts
C8_Witness ==
    /\ result.op = "list_posts"
    /\ get_posts_dir = get_content_dir
    /\ \E p \in DOMAIN files :
          IsMarkdown(p) /\ UnderDraftsDir(p) /\ files[p].readable
          /\ ~DecodedDraftFlag(p)
    /\ \E q \in DOMAIN files :
          IsMarkdown(q) /\ ~UnderDraftsDir(q) /\ DecodedDraftFlag(q)
          /\ FileName(q) # "_index.md"

\* C9: list_drafts returns exactly the readable markdown files of the
\* content tree, within the depth of the walk, that lie under the drafts
\* directory or have a decoded draft flag of true, each once.
C9_DraftsAreUnion ==
    result.op = "list_drafts" =>
        /\ Listed = {p \in DOMAIN files :
                        /\ IsMarkdown(p)
                        /\ WithinDepth(p)
                        /\ files[p].readable
                        /\ UnderDraftsDir(p) \/ DecodedDraftFlag(p)}
        /\ Cardinality(Listed) = Len(result.items)

\* the drafts listed hold one file that is a draft by its directory only
\* and one that is a draft by its flag only
C9_Witness ==
    /\ result.op = "list_drafts"
    /\ \E p \in Listed : UnderDraftsDir(p) /\ ~DecodedDraftFlag(p)
    /\ \E q \in Listed : ~UnderDraftsDir(q) /\ DecodedDraftFlag(q)

\* C10: every file returned by list_pages is named index.md or _index.md,
\* or sits directly in the content root.
C10_PagesAreIndexOrRoot ==
    result.op = "list_pages" =>
        \A p \in Listed :
            \/ FileName(p) \in {"index.md", "_index.md"}
            \/ Parent(p) = get_content_dir

\* pages were listed with a nested index file returned, while a nested
\* readable markdown file that is no index, no draft and outside the posts
\* and drafts directories was left out
C10_Witness ==
    /\ result.op = "list_pages"
    /\ \E p \in Listed : Parent(p) # get_content_dir
    /\ \E q \in DOMAIN files \ Listed :
          /\ IsMarkdown(q)
          /\ files[q].readable
          /\ ~DecodedDraftFlag(q)
          /\ ~UnderDraftsDir(q)
          /\ ~PathStartsWith(q, get_content_dir \o <<"posts">>)
          /\ ~PathStartsWith(q, get_content_dir \o <<"post">>)
          /\ WithinDepth(q)

\* the files a walk of the resolved posts directory reaches
UnderPostsDir(p) ==
    /\ PathStartsWith(p, get_posts_dir)
    /\ Len(p) - Len(get_posts_dir) <= WalkDepth

\* C11 as stated: list_posts returns exactly the markdown files under the
\* resolved posts directory, within the depth of the walk, that are named
\* neither index.md nor _index.md, do not lie under the drafts directory
\* and have no decoded draft flag of true.
C11_PostsExactlyNonIndex ==
    result.op = "list_posts" =>
        Listed = {p \in DOMAIN files :
                     /\ IsMarkdown(p)
                     /\ UnderPostsDir(p)
                     /\ FileName(p) \notin {"index.md", "_index.md"}
                     /\ ~UnderDraftsDir(p)
                     /\ ~DecodedDraftFlag(p)}

\* C11: list_posts returns exactly the readable markdown files under the
\* resolved posts directory, within the depth of the walk, that are not
\* named _index.md, do not lie under the drafts directory and have no
\* decoded draft flag of true; a file named index.md is returned as a post.
C11_PostsExactlyNonSectionIndex ==
    result.op = "list_posts" =>
        Listed = {p \in DOMAIN files :
                     /\ IsMarkdown(p)
                     /\ UnderPostsDir(p)
                     /\ files[p].readable
                     /\ FileName(p) # "_index.md"
                     /\ ~UnderDraftsDir(p)
                     /\ ~DecodedDraftFlag(p)}

\* posts were listed with a file named index.md returned while a readable
\* file named _index.md under the posts directory was left out
C11_Witness ==
    /\ result.op = "list_posts"
    /\ \E p \in Listed : FileName(p) = "index.md"
    /\ \E q \in DOMAIN files \ Listed :
          /\ FileName(q) = "_index.md"
          /\ UnderPostsDir(q)
          /\ files[q].readable
          /\ ~DecodedDraftFlag(q)

\* the files a listing returns for the tree as it stands; the set does not
\* depend on the order of the walk
FilesOf(items) == {items[i].file_path : i \in 1..Len(items)}
PostFiles ==
    FilesOf(list_posts(CHOOSE w \in WalkOrders(get_posts_dir, WalkDepth) : TRUE))
PageFiles ==
    FilesOf(list_pages(CHOOSE w \in WalkOrders(get_pages_dir, WalkDepth) : TRUE))
DraftFiles ==
    FilesOf(list_drafts(CHOOSE w \in WalkOrders(get_content_dir, WalkDepth) : TRUE))
\* in how many of the three listings the file appears
TimesClassified(p, posts, pages, drafts) ==
    (IF p \in posts THEN 1 ELSE 0) + (IF p \in pages THEN 1 ELSE 0)
        + (IF p \in drafts THEN 1 ELSE 0)

\* C12 as stated: every readable markdown file of the content tree within
\* the depth of the walk is returned by exactly one of list_posts,
\* list_pages and list_drafts, whatever the layout of the tree (stated for
\* the trees as they stand before a listing is taken, which are all the
\* trees).
C12_ExactlyOneListing ==
    result = NoResult =>
        \A p \in DOMAIN files :
            IsMarkdown(p) /\ WithinDepth(p) /\ files[p].readable =>
                TimesClassified(p, PostFiles, PageFiles, DraftFiles) = 1

\* C13: every listing is ordered by modified_at descending: of two adjacent
\* items the first is at least as recent as the second.
C13_ListingsNewestFirst ==
    result.op \in {"list_posts", "list_pages", "list_drafts"} =>
        \A i \in 1..Len(result.items) - 1 :
            result.items[i].modified_at >= result.items[i + 1].modified_at

\* a listing of two items of different modification times
C13_Witness ==
    /\ result.op \in {"list_posts", "list_pages", "list_drafts"}
    /\ Len(result.items) >= 2
    /\ result.items[1].modified_at > result.items[2].modified_at

\* the path of a file relative to the project root, written with "/"
NormalizedId(file_path) ==
    JoinComponents(SubSeq(file_path, Len(Root) + 1, Len(file_path)), "/")

\* C14 as stated: the id of every item a listing returns is the path of its
\* file relative to the project root with "/" between the components,
\* whichever separator the host uses.
C14_IdsNormalized ==
    \A i \in 1..Len(result.items) :
        result.items[i].id = NormalizedId(result.items[i].file_path)

SaveOps == {"save_post", "save_page", "save_draft"}
GetOps == {"get_post", "get_page", "get_draft"}
DeleteOps == {"delete_post", "delete_page", "delete_draft"}
\* the files other than target are the same before and after the step
OthersUntouched(target) ==
    \A q \in (DOMAIN files \cup DOMAIN files') \ {target} :
        q \in DOMAIN files /\ q \in DOMAIN files' /\ files'[q] = files[q]

\* C15 as stated: a save_* that succeeds has written the file at the id of
\* the item joined to the project root, also when the item's file_path is
\* another path, and has modified no other file.
C15_SaveWritesAtId ==
    [][reply'.op \in SaveOps /\ reply'.ok =>
          /\ Join(Root, reply'.id) \in DOMAIN files'
          /\ files'[Join(Root, reply'.id)].modified_at = Now
          /\ OthersUntouched(Join(Root, reply'.id))]_vars

\* the text of the not-found error of a command
NotFoundError(op) ==
    CASE op \in {"get_post", "delete_post"} -> "Post not found"
      [] op \in {"get_page", "delete_page"} -> "Page not found"
      [] op \in {"get_draft", "delete_draft"} -> "Draft not found"
      [] OTHER -> ""
IsNotFound(r) == ~r.ok /\ r.err = NotFoundError(r.op) /\ r.item = <<>>
\* the ids the three listings return for the tree as it stands
IdsOf(items) == {items[i].id : i \in 1..Len(items)}
ListedIds ==
    IdsOf(list_posts(CHOOSE w \in WalkOrders(get_posts_dir, WalkDepth) : TRUE))
    \cup IdsOf(list_pages(CHOOSE w \in WalkOrders(get_pages_dir, WalkDepth) : TRUE))
    \cup IdsOf(list_drafts(CHOOSE w \in WalkOrders(get_content_dir, WalkDepth) : TRUE))

\* C16: a get_* or delete_* called with an id whose path does not exist
\* answers with the not-found error of its kind and leaves the tree as it
\* was; once a delete_* has succeeded the path of the id does not exist, no
\* listing of the tree returns the id, and a get_* of the same id answers
\* not found.
C16_NotFoundAndDeleted ==
    /\ [](reply.op \in DeleteOps /\ reply.ok =>
              /\ ~Exists(Join(Root, reply.id))
              /\ reply.id \notin ListedIds
              /\ NormalizedId(Join(Root, reply.id)) \notin ListedIds)
    /\ [][/\ reply'.op \in GetOps \cup DeleteOps /\ ~Exists(Join(Root, reply'.id))
               => IsNotFound(reply') /\ files' = files /\ dirs' = dirs
          /\ reply.op \in DeleteOps /\ reply.ok
             /\ reply'.op \in GetOps /\ reply'.id = reply.id
               => IsNotFound(reply')]_vars

\* a delete_* has succeeded in a tree that holds another file
C16_Witness ==
    /\ reply.op \in DeleteOps
    /\ reply.ok
    /\ DOMAIN files # {}

\* from_file succeeds on the file
Good(p) == files[p].readable /\ files[p].metadata
\* the files each listing is about, whether or not they can be read
IsPostFile(p) ==
    /\ IsMarkdown(p) /\ UnderPostsDir(p)
    /\ FileName(p) # "_index.md"
    /\ ~UnderDraftsDir(p) /\ ~DecodedDraftFlag(p)
IsPageFile(p) ==
    /\ IsMarkdown(p) /\ WithinDepth(p)
    /\ ~(get_posts_dir # get_pages_dir /\ PathStartsWith(p, get_posts_dir))
    /\ ~UnderDraftsDir(p) /\ ~DecodedDraftFlag(p)
    /\ FileName(p) \in {"index.md", "_index.md"} \/ Parent(p) = get_pages_dir
IsDraftFile(p) ==
    /\ IsMarkdown(p) /\ WithinDepth(p)
    /\ UnderDraftsDir(p) \/ DecodedDraftFlag(p)
FilesOfListing(op) ==
    CASE op = "list_posts" -> {p \in DOMAIN files : IsPostFile(p)}
      [] op = "list_pages" -> {p \in DOMAIN files : IsPageFile(p)}
      [] op = "list_drafts" -> {p \in DOMAIN files : IsDraftFile(p)}
      [] OTHER -> {}
DirOfListing(op) ==
    IF op = "list_posts" THEN get_posts_dir ELSE get_content_dir

\* C17: a listing command always answers with a listing: a file that cannot
\* be read, or whose metadata cannot be had, is left out and every other
\* file of the listing is returned; when the directory of the listing does
\* not exist the listing is empty.
C17_ListingsSkipFailures ==
    result.op \in {"list_posts", "list_pages", "list_drafts"} =>
        /\ Listed = {p \in FilesOfListing(result.op) : Good(p)}
        /\ ~Exists(DirOfListing(result.op)) => result.items = <<>>

\* a listing returned a file while the tree held a file of the same listing
\* that was read and whose metadata could not be had
C17_Witness ==
    /\ result.op \in {"list_posts", "list_pages", "list_drafts"}
    /\ Listed # {}
    /\ \E q \in FilesOfListing(result.op) : files[q].readable /\ ~files[q].metadata

\* ------------------------------------------------------------------------
\* Properties of the project layout
\* ------------------------------------------------------------------------
\* the positions of the candidates that exist under dir, and those that
\* exist there as files
ExistingAt(dir) == {i \in 1..Len(candidates) : Exists(dir \o <<candidates[i]>>)}
FilesAt(dir) == {i \in 1..Len(candidates) : IsFile(dir \o <<candidates[i]>>)}
Least(S) == CHOOSE i \in S : \A j \in S : i <= j
\* the candidate under the root, else under config/_default, that comes
\* first among the positions given for each place
FirstOf(at_root, nested) ==
    IF at_root # {} THEN Some(Root \o <<candidates[Least(at_root)]>>)
    ELSE IF nested # {} THEN Some(ConfigDir \o <<candidates[Least(nested)]>>)
    ELSE None

C19_FirstExistingFile ==
    reply.op = "find_config_path" =>
        reply.item = FirstOf(FilesAt(Root), FilesAt(ConfigDir))

\* C19: find_config_path returns the first existing path, file or
\* directory, in the order hugo.toml, hugo.yaml, hugo.yml, hugo.json,
\* config.toml, config.yaml, config.yml, config.json at the project root,
\* then in the same order under config/_default; a match at the root wins
\* over a nested one, and None is returned exactly when no candidate exists.
C19_FirstExistingPath ==
    /\ candidates = <<"hugo.toml", "hugo.yaml", "hugo.yml", "hugo.json",
                      "config.toml", "config.yaml", "config.yml", "config.json">>
    /\ reply.op = "find_config_path" =>
          /\ reply.item = FirstOf(ExistingAt(Root), ExistingAt(ConfigDir))
          /\ reply.item = None <=> \A q \in ConfigPaths : ~Exists(q)

\* find_config_path returned a candidate at the root while a candidate
\* earlier in the order existed under config/_default
C19_Witness ==
    /\ reply.op = "find_config_path"
    /\ \E i, j \in 1..Len(candidates) :
          /\ i < j
          /\ Exists(ConfigDir \o <<candidates[i]>>)
          /\ reply.item = Some(Root \o <<candidates[j]>>)

\* C20: get_posts_dir returns content/posts when it exists, else
\* content/post when it exists, else the content root, for the tree as it
\* stands after every creation and removal of these directories.
C20_PostsDirResolution ==
    reply.op = "get_posts_dir" =>
        reply.item =
            <<IF Exists(<<"site", "content", "posts">>) THEN <<"site", "content", "posts">>
              ELSE IF Exists(<<"site", "content", "post">>) THEN <<"site", "content", "post">>
              ELSE <<"site", "content">>>>

\* get_posts_dir was called with both directories present and returned the
\* plural one
C20_Witness ==
    /\ reply.op = "get_posts_dir"
    /\ Exists(<<"site", "content", "posts">>)
    /\ Exists(<<"site", "content", "post">>)
    /\ reply.item = <<<<"site", "content", "posts">>>>

\* C23: delete_page called on a file whose parent directory is named
\* content, posts or drafts returns an error and removes nothing; on any
\* other file it removes the file, and when the file is index.md or
\* _index.md it removes the parent directory as well, only when nothing is
\* left in it.
C23_DeletePageGuards ==
    [][(reply'.op = "delete_page" /\ IsFile(Join(Root, reply'.id))) =>
          LET file_path == Join(Root, reply'.id)
              parent == Parent(file_path)
              left == {q \in DOMAIN files \cup dirs :
                          q \notin {file_path, parent} /\ PathStartsWith(q, parent)} IN
          IF FileName(parent) \in {"content", "posts", "drafts"}
          THEN ~reply'.ok /\ files' = files /\ dirs' = dirs
          ELSE /\ reply'.ok
               /\ DOMAIN files' = DOMAIN files \ {file_path}
               /\ \A q \in DOMAIN files' : files'[q] = files[q]
               /\ dirs' = IF FileName(file_path) \in {"index.md", "_index.md"}
                             /\ left = {}
                          THEN dirs \ {parent} ELSE dirs]_vars

\* an index file was deleted and its directory, which holds another file,
\* was kept
C23_Witness ==
    /\ reply.op = "delete_page"
    /\ reply.ok
    /\ FileName(Join(Root, reply.id)) = "index.md"
    /\ Parent(Join(Root, reply.id)) \in dirs
    /\ DOMAIN files # {}

\* the ids list_pages returns for the tree as it stands
ListedPageIds ==
    IdsOf(list_pages(CHOOSE w \in WalkOrders(get_pages_dir, WalkDepth) : TRUE))

\* C28 as stated: delete_page called with the id of a page that list_pages
\* returns succeeds, and list_pages of the tree it leaves does not return
\* the id.
C28_ListedPagesDeletable ==
    /\ [](reply.op = "delete_page" /\ reply.ok => reply.id \notin ListedPageIds)
    /\ [][(reply'.op = "delete_page" /\ reply'.id \in ListedPageIds)
             => reply'.ok]_vars

\* C28 for the pages below content: only index files in a directory of
\* their own
C28_NestedPagesDeletable ==
    /\ [](reply.op = "delete_page" /\ reply.ok => reply.id \notin ListedPageIds)
    /\ [][(/\ reply'.op = "delete_page"
           /\ reply'.id \in ListedPageIds
           /\ Parent(Join(Root, reply'.id)) # get_pages_dir)
             => reply'.ok]_vars

\* ------------------------------------------------------------------------
\* Properties of the construction of items
\* ------------------------------------------------------------------------
\* the title the backfill gives to an item read from the file p
BackfilledTitle(p, parsed) ==
    IF parsed.frontmatter.title = <<Wu>>
    THEN IF extract_title_from_markdown(parsed.content) # None
         THEN extract_title_from_markdown(parsed.content)[1]
         ELSE <<FileStem(FileName(p))>>
    ELSE parsed.frontmatter.title

\* C21 as stated: every item a listing returns, post, page or draft, has
\* the backfilled title: when the parsed title is "Untitled Post", the
\* trimmed rest of the first body line that begins with "# ", else the
\* file's stem; any other parsed title unchanged.
C21_TitleBackfill ==
    \A i \in 1..Len(result.items) :
        result.items[i].title =
            BackfilledTitle(result.items[i].file_path,
                            Parse(files[result.items[i].file_path].text))

\* ---------------------------------------------------------------------
\* create_post, create_page and create_draft (commands.rs)
\* ---------------------------------------------------------------------
\* the text of the current time, a plain scalar
date_str == <<Wb>>

\* the Frontmatter a create_* command builds
NewFrontmatter(title, draft) ==
    [DefaultFrontmatter EXCEPT !.title = title, !.date = date_str,
                               !.draft = draft]

\* format!("---\n{}---\n\n", frontmatter_yaml)
NewItemText(title, draft) ==
    <<D3, NL>> \o frontmatter_to_yaml(NewFrontmatter(title, draft))
    \o <<D3, NL, NL>>

\* fs::write(file_path, content) at the current time
Written(file_path, text) ==
    [q \in DOMAIN files \cup {file_path} |->
        IF q = file_path
        THEN [text |-> text, modified_at |-> Now, readable |-> TRUE,
              metadata |-> TRUE]
        ELSE files[q]]

\* a file is added only while the tree holds fewer than MaxFiles files
RoomFor(file_path) ==
    file_path \in DOMAIN files \/ Cardinality(DOMAIN files) < MaxFiles

\* create_post: the path of the new file
PostPath(posts_dir, title) == posts_dir \o <<sanitize_filename(title) \o ".md">>

\* create_post(project_path, title)
CreatePost ==
    \E title \in TitleChoices :
        LET file_path == PostPath(get_posts_dir, title)
            text == NewItemText(title, None) IN
        /\ RoomFor(file_path)
        /\ dirs' = dirs \cup Ancestors(file_path)
        /\ files' = Written(file_path, text)
        /\ reply' = Reply("create_post", "", file_path,
                          Ok(PostFromDocument(file_path, WalkText(file_path),
                                              Parse(text), Now)), "")
        /\ result' = NoResult
        /\ UNCHANGED <<pvars, sep, avars>>

\* create_page: the directory of the new page
PageDir(pages_dir, title, timestamp) ==
    LET sanitized == sanitize_filename(title)
        folder_name == IF sanitized = "" THEN "page" ELSE sanitized IN
    IF Exists(pages_dir \o <<folder_name>>)
    THEN pages_dir \o <<folder_name \o "_" \o ToString(timestamp)>>
    ELSE pages_dir \o <<folder_name>>

\* create_page(project_path, title)
CreatePage ==
    \E title \in TitleChoices, timestamp \in Timestamps :
        LET file_path == PageDir(get_pages_dir, title, timestamp) \o <<"index.md">>
            text == NewItemText(title, None) IN
        /\ RoomFor(file_path)
        /\ dirs' = dirs \cup Ancestors(file_path)
        /\ files' = Written(file_path, text)
        /\ reply' = Reply("create_page", "", file_path,
                          Ok(PageFromDocument(file_path, WalkText(file_path),
                                              Parse(text), Now)), "")
        /\ result' = NoResult
        /\ UNCHANGED <<pvars, sep, avars>>

\* create_draft: the path of the new file
DraftPath(drafts_dir, title, timestamp) ==
    LET sanitized == sanitize_filename(title)
        filename == IF sanitized = "" THEN "draft" ELSE sanitized IN
    IF Exists(drafts_dir \o <<filename \o ".md">>)
    THEN drafts_dir \o <<filename \o "_" \o ToString(timestamp) \o ".md">>
    ELSE drafts_dir \o <<filename \o ".md">>

\* create_draft(project_path, title)
CreateDraft ==
    \E title \in TitleChoices, timestamp \in Timestamps :
        LET file_path == DraftPath(get_content_dir \o <<"drafts">>, title, timestamp)
            text == NewItemText(title, Some(TRUE)) IN
        /\ RoomFor(file_path)
        /\ dirs' = dirs \cup Ancestors(file_path)
        /\ files' = Written(file_path, text)
        /\ reply' = Reply("create_draft", "", file_path,
                          Ok(PageFromDocument(file_path, WalkText(file_path),
                                              Parse(text), Now)), "")
        /\ result' = NoResult
        /\ UNCHANGED <<pvars, sep, avars>>

\* the files of the projects the create_* commands are called on
CreateRels ==
    {<<"content", "posts", "a.md">>, <<"content", "post", "a.md">>,
     <<"content", "a", "index.md">>, <<"content", "drafts", "a.md">>}
\* the trees at the start: fewer than MaxFiles files, with their directories
CreateTrees ==
    UNION {[S -> {[text |-> PlainDoc, modified_at |-> 1, readable |-> TRUE,
                   metadata |-> TRUE]}] :
              S \in {T \in SUBSET {Root \o rel : rel \in CreateRels} :
                         Cardinality(T) < MaxFiles}}

InitCreate ==
    /\ raw = <<>>
    /\ stage = "input"
    /\ doc = NoDoc
    /\ md = <<>>
    /\ doc2 = NoDoc
    /\ sep = "/"
    /\ files \in CreateTrees
    /\ dirs = {Root} \cup UNION {Ancestors(q) : q \in DOMAIN files}
    /\ result = NoResult
    /\ reply = NoReply
    /\ AppAtStart

NextCreate ==
    \/ CreatePost \/ CreatePage \/ CreateDraft
    \/ ListPosts \/ ListPages \/ ListDrafts

SpecCreate == InitCreate /\ [][NextCreate]_vars

\* ---------------------------------------------------------------------
\* delete_static_entry and validate_relative_path (commands.rs)
\* ---------------------------------------------------------------------
\* A relative_path is a text over the chunks below; "/" is the separator
\* of the host and " " is white space.
PathTokens == {"/", ".", "..", "a", "n.txt", " "}
\* the chunks of a relative_path
MaxTokens == 2

RECURSIVE TextsUpTo(_)
TextsUpTo(n) ==
    IF n = 0 THEN {<<>>}
    ELSE TextsUpTo(n - 1)
         \cup {Append(t, c) : t \in {u \in TextsUpTo(n - 1) : Len(u) = n - 1},
                              c \in PathTokens}
RelativeTexts == TextsUpTo(MaxTokens)

\* the texts between the separators
Segments(text) ==
    LET parts == SplitAll(text, "/") IN
    [i \in 1..Len(parts) |-> Concat(parts[i])]

\* relative_path.trim().is_empty()
TrimmedEmpty(text) == \A i \in 1..Len(text) : text[i] = " "

\* Path::is_absolute, on a host whose paths have no prefix
is_absolute(text) == text # <<>> /\ text[1] = "/"

RECURSIVE ComponentsFrom(_, _)
\* Path::components after the root: empty segments and "." are skipped,
\* but for a "." that begins the path
ComponentsFrom(segs, i) ==
    IF i > Len(segs) THEN <<>>
    ELSE (IF segs[i] = "" THEN <<>>
          ELSE IF segs[i] = "."
          THEN (IF i = 1 THEN <<[kind |-> "CurDir", name |-> "."]>> ELSE <<>>)
          ELSE IF segs[i] = ".." THEN <<[kind |-> "ParentDir", name |-> ".."]>>
          ELSE <<[kind |-> "Normal", name |-> segs[i]]>>)
         \o ComponentsFrom(segs, i + 1)

\* Path::components
PathComponents(text) ==
    (IF is_absolute(text) THEN <<[kind |-> "RootDir", name |-> "/"]>> ELSE <<>>)
    \o ComponentsFrom(Segments(text), 1)

\* validate_relative_path: the error, or "" when the path is accepted
validate_relative_path(relative) ==
    IF relative = <<>> THEN ""
    ELSE IF is_absolute(relative) THEN "Path must be relative"
    ELSE IF \E i \in 1..Len(PathComponents(relative)) :
                PathComponents(relative)[i].kind \in {"ParentDir", "RootDir", "Prefix"}
    THEN "Path must not contain parent or root segments"
    ELSE ""

\* HugoProject::get_static_dir
get_static_dir == Root \o <<"static">>

\* the file or directory static_dir.join(relative) names: the host skips
\* every "." on the way
TargetPath(relative) ==
    LET comps == SelectSeq(PathComponents(relative), LAMBDA c : c.kind = "Normal") IN
    get_static_dir \o [i \in 1..Len(comps) |-> comps[i].name]

\* the text of the path ends with a "." segment: the host removes what is
\* in such a directory and then fails to remove the directory itself, or
\* removes it too
EndsWithCurDir(relative) ==
    LET segs == SelectSeq(Segments(relative), LAMBDA g : g # "") IN
    segs # <<>> /\ segs[Len(segs)] = "."

\* delete_static_entry(project_path, relative_path)
DeleteStaticEntry ==
    \E relative_path \in RelativeTexts :
      \E removed \in IF EndsWithCurDir(relative_path) THEN BOOLEAN ELSE {TRUE} :
        LET target_path == TargetPath(relative_path)
            id == Concat(relative_path)
            below == {q \in dirs \cup DOMAIN files :
                         q # target_path /\ PathStartsWith(q, target_path)} IN
        /\ IF TrimmedEmpty(relative_path)
           THEN /\ reply' = Reply("delete_static_entry", id, <<>>, Err,
                                  "Refusing to delete static root")
                /\ UNCHANGED <<dirs, files>>
           ELSE IF validate_relative_path(relative_path) # ""
           THEN /\ reply' = Reply("delete_static_entry", id, <<>>, Err,
                                  validate_relative_path(relative_path))
                /\ UNCHANGED <<dirs, files>>
           ELSE IF ~Exists(target_path)
           THEN /\ reply' = Reply("delete_static_entry", id, <<>>, Err,
                                  "Entry not found")
                /\ UNCHANGED <<dirs, files>>
           ELSE IF target_path \in dirs
           THEN /\ files' = [q \in DOMAIN files \ below |-> files[q]]
                /\ dirs' = IF removed THEN dirs \ (below \cup {target_path})
                           ELSE dirs \ below
                /\ reply' = IF removed
                            THEN Reply("delete_static_entry", id, <<>>, Unit, "")
                            ELSE Reply("delete_static_entry", id, <<>>, Err,
                                       "Failed to delete folder")
           ELSE /\ files' = [q \in DOMAIN files \ {target_path} |-> files[q]]
                /\ dirs' = dirs
                /\ reply' = Reply("delete_static_entry", id, <<>>, Unit, "")
        /\ result' = NoResult
        /\ UNCHANGED <<pvars, sep, avars>>

\* the files of the projects delete_static_entry is called on
StaticRels ==
    {<<"static", "n.txt">>, <<"static", "a", "n.txt">>, <<"content", "a.md">>}
StaticTrees ==
    UNION {[S -> {[text |-> PlainDoc, modified_at |-> 1, readable |-> TRUE,
                   metadata |-> TRUE]}] :
              S \in SUBSET {Root \o rel : rel \in StaticRels}}

InitStatic ==
    /\ raw = <<>>
    /\ stage = "input"
    /\ doc = NoDoc
    /\ md = <<>>
    /\ doc2 = NoDoc
    /\ sep = "/"
    /\ files \in StaticTrees
    /\ dirs = {Root} \cup UNION {Ancestors(q) : q \in DOMAIN files}
    /\ result = NoResult
    /\ reply = NoReply
    /\ AppAtStart

NextStatic == DeleteStaticEntry

SpecStatic == InitStatic /\ [][NextStatic]_vars

\* ---------------------------------------------------------------------
\* AppConfig::add_recent_project (config.rs)
\* ---------------------------------------------------------------------
\* the project paths of the model, in the order of the list at the start
RecentNames ==
    <<"/p01", "/p02", "/p03", "/p04", "/p05", "/p06", "/p07", "/p08",
      "/p09", "/p10", "/p11">>
\* the paths add_recent_project is called with: the first of the list, one
\* inside it, its last when it is full, and one that is never in it at
\* the start
AddedPaths == {"/p01", "/p05", "/p10", "/p11"}
\* the length the list is cut to
RecentLimit == 10

\* add_recent_project that keeps the whole list
NotTruncated(list) == list

\* recent_projects.truncate(10) when the list is longer
Truncated(list) ==
    IF Len(list) > RecentLimit THEN SubSeq(list, 1, RecentLimit) ELSE list

\* add_recent_project: the list after retain, insert(0, ..) and truncate
WithRecent(list, project_path) ==
    Truncated(<<project_path>> \o SelectSeq(list, LAMBDA p : p # project_path))

\* AppConfig::add_recent_project(project_path)
AddRecentProject ==
    \E project_path \in AddedPaths :
        /\ config' = [recent_projects |->
                          WithRecent(config.recent_projects, project_path),
                      last_project_path |-> Some(project_path)]
        /\ reply' = Reply("add_recent_project", project_path, <<>>, Unit, "")
        /\ UNCHANGED <<pvars, fvars, sep, servers, procs, calls>>

\* the lists at the start: the first names, up to the limit, as a
\* configuration the program saved
InitConfig ==
    /\ raw = <<>>
    /\ stage = "input"
    /\ doc = NoDoc
    /\ md = <<>>
    /\ doc2 = NoDoc
    /\ dirs = {}
    /\ files = <<>>
    /\ result = NoResult
    /\ sep = "/"
    /\ reply = NoReply
    /\ servers = <<>>
    /\ procs = <<>>
    /\ calls = <<>>
    /\ \E n \in 0..RecentLimit :
          config = [recent_projects |-> SubSeq(RecentNames, 1, n),
                    last_project_path |-> IF n = 0 THEN None ELSE Some(RecentNames[1])]

NextConfig == AddRecentProject

SpecConfig == InitConfig /\ [][NextConfig]_vars

\* ---------------------------------------------------------------------
\* hugo.rs: the registry of running hugo servers
\* ---------------------------------------------------------------------

\* the project paths start_server is called for (self.path as a string)
ProjectPaths == {"/a", "/b"}
\* the hugo processes one run may spawn
MaxSpawns == 3
\* the start_server calls that may overlap
MaxCalls == 2

\* servers.contains_key(&server_id)
contains_key(server_id) == server_id \in DOMAIN servers

\* Command::new("hugo")...spawn() for the project: the Child is the next one
Spawned(key) == Append(procs, [key |-> key, status |-> "running"])

\* servers.insert(server_id, child): an entry of the same key is replaced
Inserted(server_id, child) ==
    [k \in DOMAIN servers \cup {server_id} |->
        IF k = server_id THEN child ELSE servers[k]]

\* stop_server that leaves the entry in the map
RemovedNothing(server_id) == servers

\* servers.remove(server_id)
Removed(server_id) == [k \in DOMAIN servers \ {server_id} |-> servers[k]]

\* child.kill() that succeeded: a running process is killed
Killed(child) ==
    [procs EXCEPT ![child].status =
        IF procs[child].status = "running" THEN "killed" ELSE procs[child].status]

\* is_server_running that asks the process instead of the map
is_server_alive(key) ==
    contains_key(key) /\ procs[servers[key]].status = "running"

\* HugoProject::is_server_running
is_server_running(key) == contains_key(key)

\* spawn() can succeed while the run has processes left
SpawnOutcomes == IF Len(procs) < MaxSpawns THEN BOOLEAN ELSE {FALSE}

\* HugoProject::start_server, called with no other call in flight
StartServer ==
    \E key \in ProjectPaths, spawns \in SpawnOutcomes :
        /\ calls = <<>>
        /\ IF contains_key(key)
           THEN /\ reply' = Reply("start_server", key, <<>>, Err,
                              "Server is already running")
                /\ UNCHANGED <<servers, procs>>
           ELSE IF ~spawns
           THEN /\ reply' = Reply("start_server", key, <<>>, Err,
                              "Failed to start hugo server")
                /\ UNCHANGED <<servers, procs>>
           ELSE /\ procs' = Spawned(key)
                /\ servers' = Inserted(key, Len(procs) + 1)
                /\ reply' = Reply("start_server", key, <<>>, Ok([server_id |-> key]), "")
        /\ UNCHANGED <<pvars, fvars, sep, calls, config>>

\* HugoProject::stop_server: the entry is removed before the kill
StopServer ==
    \E server_id \in ProjectPaths, kills \in BOOLEAN :
        /\ IF contains_key(server_id)
           THEN /\ servers' = Removed(server_id)
                /\ procs' = IF kills THEN Killed(servers[server_id]) ELSE procs
                /\ reply' = IF kills
                            THEN Reply("stop_server", server_id, <<>>, Unit, "")
                            ELSE Reply("stop_server", server_id, <<>>, Err,
                                       "Failed to kill server process")
           ELSE /\ reply' = Reply("stop_server", server_id, <<>>, Err,
                              "Server not found")
                /\ UNCHANGED <<servers, procs>>
        /\ UNCHANGED <<pvars, fvars, sep, calls, config>>

\* HugoProject::is_server_running
IsServerRunning ==
    \E key \in ProjectPaths :
        /\ reply' = Reply("is_server_running", key, <<>>,
                          Ok([running |-> is_server_running(key)]), "")
        /\ UNCHANGED <<pvars, fvars, sep, servers, procs, calls, config>>

\* a hugo process ends by itself; the registry is not told
ProcessExits ==
    \E child \in 1..Len(procs) :
        /\ procs[child].status = "running"
        /\ procs' = [procs EXCEPT ![child].status = "exited"]
        /\ reply' = NoReply
        /\ UNCHANGED <<pvars, fvars, sep, servers, calls, config>>

InitServers ==
    /\ raw = <<>>
    /\ stage = "input"
    /\ doc = NoDoc
    /\ md = <<>>
    /\ doc2 = NoDoc
    /\ dirs = {}
    /\ files = <<>>
    /\ result = NoResult
    /\ sep = "/"
    /\ reply = NoReply
    /\ AppAtStart

NextServers == StartServer \/ StopServer \/ IsServerRunning \/ ProcessExits

SpecServers == InitServers /\ [][NextServers]_vars

\* start_server, first lock scope: the call returns when the key is tracked
StartCheck ==
    \E t \in 1..MaxCalls, key \in ProjectPaths :
        /\ t \notin DOMAIN calls
        /\ calls' = [c \in DOMAIN calls \cup {t} |->
                        IF c # t THEN calls[c]
                        ELSE IF contains_key(key)
                        THEN [key |-> key, pc |-> "done", child |-> 0,
                              ret |-> "Server is already running"]
                        ELSE [key |-> key, pc |-> "spawn", child |-> 0,
                              ret |-> ""]]
        /\ UNCHANGED <<pvars, fvars, cvars, servers, procs, config>>

\* start_server, between the lock scopes: the process is spawned
StartSpawn ==
    \E t \in DOMAIN calls, spawns \in SpawnOutcomes :
        /\ calls[t].pc = "spawn"
        /\ IF spawns
           THEN /\ procs' = Spawned(calls[t].key)
                /\ calls' = [calls EXCEPT ![t].pc = "insert",
                                          ![t].child = Len(procs) + 1]
           ELSE /\ procs' = procs
                /\ calls' = [calls EXCEPT ![t].pc = "done",
                                          ![t].ret = "Failed to start hugo server"]
        /\ UNCHANGED <<pvars, fvars, cvars, servers, config>>

\* start_server, second lock scope: the Child is inserted, Ok(server_id)
StartInsert ==
    \E t \in DOMAIN calls :
        /\ calls[t].pc = "insert"
        /\ servers' = Inserted(calls[t].key, calls[t].child)
        /\ calls' = [calls EXCEPT ![t].pc = "done", ![t].ret = "ok"]
        /\ UNCHANGED <<pvars, fvars, cvars, procs, config>>

NextRacing ==
    \/ StartCheck \/ StartSpawn \/ StartInsert
    \/ StopServer \/ IsServerRunning \/ ProcessExits

SpecRacing == InitServers /\ [][NextRacing]_vars

\* C22: in any sequence of start_server, stop_server and is_server_running
\* calls, a start for a tracked key is rejected without spawning and without
\* changing the registry, a successful stop removes the key and kills its
\* process, a stop for an untracked key returns an error, and
\* is_server_running is true exactly for the tracked keys.
C22_RegistryProtocol ==
    [][/\ (reply'.op = "start_server" /\ contains_key(reply'.id)) =>
            /\ ~reply'.ok
            /\ reply'.err = "Server is already running"
            /\ servers' = servers
            /\ procs' = procs
       /\ (reply'.op = "stop_server" /\ reply'.ok) =>
            /\ contains_key(reply'.id)
            /\ reply'.id \notin DOMAIN servers'
            /\ procs'[servers[reply'.id]].status # "running"
       /\ (reply'.op = "stop_server" /\ ~contains_key(reply'.id)) =>
            /\ ~reply'.ok
            /\ reply'.err = "Server not found"
            /\ servers' = servers
            /\ procs' = procs
       /\ reply'.op = "is_server_running" =>
            reply'.item = <<[running |-> contains_key(reply'.id)]>>]_vars

\* a server was stopped and its process killed while another stays tracked
C22_Witness ==
    /\ reply.op = "stop_server"
    /\ reply.ok
    /\ \E child \in 1..Len(procs) : procs[child].status = "killed"
    /\ servers # <<>>

\* C24 as stated: when start_server calls for one project path overlap, at
\* most one of them returns a server id, at most one hugo process is
\* spawned, and a tracked process stays tracked until stop_server removes
\* its key (no insert of another call replaces it).
C24_OneServerPerProject ==
    [][/\ \A k \in DOMAIN servers :
            k \in DOMAIN servers' => servers'[k] = servers[k]
       /\ Len(procs') > Len(procs) =>
            /\ ~contains_key(procs'[Len(procs')].key)
            /\ \A t \in DOMAIN calls :
                 ~(calls[t].pc = "insert" /\ calls[t].key = procs'[Len(procs')].key)
       /\ \A t \in DOMAIN calls :
            (calls[t].pc = "insert" /\ calls'[t].ret = "ok") =>
                ~contains_key(calls[t].key)]_vars

\* C25: the registry tracks keys, not liveness: while the key of a process
\* that exited by itself is tracked, is_server_running is true and
\* start_server is rejected without spawning; a stop_server that finds the key
\* and fails to kill returns an error with the key already removed.
C25_KeysNotLiveness ==
    [][/\ (contains_key(reply'.id) /\ procs[servers[reply'.id]].status = "exited") =>
            /\ reply'.op = "is_server_running" =>
                 reply'.item = <<[running |-> TRUE]>>
            /\ reply'.op = "start_server" =>
                 /\ ~reply'.ok
                 /\ reply'.err = "Server is already running"
                 /\ procs' = procs
                 /\ servers' = servers
       /\ (reply'.op = "stop_server" /\ contains_key(reply'.id) /\ ~reply'.ok) =>
            /\ reply'.err = "Failed to kill server process"
            /\ reply'.id \notin DOMAIN servers'
            /\ procs' = procs]_vars

\* is_server_running answered true for a process that had exited
C25_Witness ==
    /\ reply.op = "is_server_running"
    /\ reply.item = <<[running |-> TRUE]>>
    /\ contains_key(reply.id)
    /\ procs[servers[reply.id]].status = "exited"

CreateOps == {"create_post", "create_page", "create_draft"}

\* C26 as stated: create_post, create_page and create_draft leave every
\* file that existed before the call as it was, for every title and tree.
C26_CreateNeverOverwrites ==
    [][reply'.op \in CreateOps =>
          \A q \in DOMAIN files :
              q \in DOMAIN files' /\ files'[q] = files[q]]_vars

\* C26 for create_page and create_draft alone
C26_PagesAndDraftsKept ==
    [][reply'.op \in {"create_page", "create_draft"} =>
          \A q \in DOMAIN files :
              q \in DOMAIN files' /\ files'[q] = files[q]]_vars

\* the listing that answers a create_* command
ListingOf(op) ==
    CASE op = "create_post" -> "list_posts"
      [] op = "create_page" -> "list_pages"
      [] op = "create_draft" -> "list_drafts"
      [] OTHER -> "none"

\* C27 as stated: once create_post, create_page or create_draft has
\* returned an item, the next list_posts, list_pages or list_drafts
\* returns an item with its id.
C27_CreatedIsListed ==
    (reply.op \in CreateOps /\ reply.ok /\ result.op = ListingOf(reply.op))
        => reply.item[1].id \in IdsOf(result.items)

\* C27 for create_draft alone
C27_CreatedDraftIsListed ==
    (reply.op = "create_draft" /\ reply.ok /\ result.op = "list_drafts")
        => reply.item[1].id \in IdsOf(result.items)

\* the relative_path names the static directory itself: nothing but white
\* space, or nothing but "." and separators after the start
NamesStaticRoot(relative) ==
    \/ TrimmedEmpty(relative)
    \/ /\ ~is_absolute(relative)
       /\ \A i \in 1..Len(Segments(relative)) : Segments(relative)[i] \in {"", "."}
\* the relative_path has a parent or root segment
HasParentOrRoot(relative) ==
    \/ is_absolute(relative)
    \/ \E i \in 1..Len(Segments(relative)) : Segments(relative)[i] = ".."

\* C29 as stated: delete_static_entry called with a relative_path that
\* names the static directory itself (empty, white space, `.`, `./`) or
\* that has a parent, root or prefix segment returns an error and leaves
\* the tree as it was.
C29_StaticRootKept ==
    [][\A relative \in RelativeTexts :
          (/\ reply'.op = "delete_static_entry"
           /\ reply'.id = Concat(relative)
           /\ NamesStaticRoot(relative) \/ HasParentOrRoot(relative))
             => ~reply'.ok /\ files' = files /\ dirs' = dirs]_vars

\* C29 without the paths made of "." segments: white space and parent or
\* root segments
C29_RefusedPathsKeepTree ==
    [][\A relative \in RelativeTexts :
          (/\ reply'.op = "delete_static_entry"
           /\ reply'.id = Concat(relative)
           /\ TrimmedEmpty(relative) \/ HasParentOrRoot(relative))
             => ~reply'.ok /\ files' = files /\ dirs' = dirs]_vars

\* whatever the relative_path, nothing outside the static directory changes
C29_OutsideKept ==
    [][reply'.op = "delete_static_entry" =>
          /\ \A q \in DOMAIN files :
                ~PathStartsWith(q, get_static_dir) =>
                    q \in DOMAIN files' /\ files'[q] = files[q]
          /\ \A d \in dirs : ~PathStartsWith(d, get_static_dir) => d \in dirs']_vars

\* the place of a path in a list, 0 when it is not there
PlaceIn(list, p) ==
    IF \E i \in 1..Len(list) : list[i] = p
    THEN CHOOSE i \in 1..Len(list) : list[i] = p ELSE 0

\* C30: starting from a list without duplicates and of at most 10 entries,
\* after every add_recent_project the list has no duplicate and at most 10
\* entries, its first entry is the path just added, last_project_path is
\* that entry, and the other paths it retains are paths of the list before
\* the call, in the order they had.
C30_RecentProjects ==
    /\ [](/\ Len(config.recent_projects) <= 10
          /\ \A i, j \in 1..Len(config.recent_projects) :
                config.recent_projects[i] = config.recent_projects[j] => i = j)
    /\ [][reply'.op = "add_recent_project" =>
             LET old == config.recent_projects
                 new == config'.recent_projects IN
             /\ new # <<>>
             /\ new[1] = reply'.id
             /\ config'.last_project_path = <<new[1]>>
             /\ \A i \in 2..Len(new) : PlaceIn(old, new[i]) > 0
             /\ \A i, j \in 2..Len(new) :
                   i < j => PlaceIn(old, new[i]) < PlaceIn(old, new[j])
             /\ \A k \in 1..Len(old) :
                   (old[k] # reply'.id /\ PlaceIn(new, old[k]) = 0) =>
                       /\ Len(new) = 10
                       /\ \A m \in 1..k : PlaceIn(new, old[m]) = 0 => m = k]_vars

\* a path that was not in a full list was added: the list is still full,
\* the new path is first and the last one is gone
C30_Witness ==
    /\ reply.op = "add_recent_project"
    /\ reply.id = "/p11"
    /\ Len(config.recent_projects) = 10
    /\ config.recent_projects[1] = "/p11"
    /\ PlaceIn(config.recent_projects, "/p10") = 0

====
